---- MODULE Spec2Model ----
(***************************************************************************)
(* The per-loglet worker of the log server                                 *)
(* (crates/log-server/src/loglet_worker.rs): the select loop of            *)
(* LogletWorker::run, process_store, process_seal, process_trim and        *)
(* process_get_records, together with the collaborators the loop drives:   *)
(* the loglet state and its tail watch, the global-tail tracker, the log   *)
(* store's completion tokens and the disposable read and trim tasks.       *)
(*                                                                         *)
(* A message is read by the worker only when recv() hands it over, and the *)
(* senders choose the bodies without looking at the worker, so an inbox is *)
(* kept as the number of queued messages and the body of a message is      *)
(* drawn when it is received.                                              *)
(***************************************************************************)
EXTENDS Naturals, Sequences, FiniteSets

\* ------------------------------------------------------------------ bounds

\* The largest offset a request of the model addresses.
MaxOffset == 2
\* The largest number of payloads of one Store.
MaxLen == 2
\* The number of requests and tracker updates that reach the worker in one
\* behaviour.
MaxRequests == 2
\* The number of requests that wait in the inboxes at once.
MaxQueued == 1
\* The largest offset of a record or of a read range, where reads are
\* checked on their own.
MaxReadOffset == 4
\* The number of requests that reach the worker in one behaviour, where the
\* peers pass in any offset as their known_global_tail.
MaxHintedRequests == 2
\* The number of requests that wait in the inboxes at once, where a Seal and
\* a Store are let wait together.
MaxQueuedTogether == 2
\* The number of requests that reach the worker in one behaviour, where only
\* Stores and Trims, only Stores and Seals, or only Stores are sent.
MaxDeepRequests == 3

\* ------------------------------------------------------------------ values

INVALID == 0
OLDEST == 1

\* Option<T>: None, or Some(x) with unwrap(Some(x)) = x.
None == << >>
Some(x) == << x >>
unwrap(o) == o[1]

\* GenerationalNodeId: (node, generation); equality is strict on both fields.
NodeIds == { <<1, 1>>, <<1, 2>> }

Offsets == 0 .. MaxOffset

\* The known_global_tail a message carries: INVALID when the peer has no
\* reasonable value to pass in, or the tail once every offset is released.
KnownGlobalTails == { INVALID, MaxOffset + 1 }

Max(a, b) == IF a >= b THEN a ELSE b
Min(a, b) == IF a <= b THEN a ELSE b

\* SequenceNumber::next and SequenceNumber::prev of LogletOffset.
next(o) == o + 1
prev(o) == IF o = INVALID THEN INVALID ELSE o - 1

\* Store::last_offset: None when first_offset + len - 1 is not an offset.
last_offset(body) ==
    IF body.len = 0 \/ body.first_offset + body.len - 1 > MaxOffset
    THEN None
    ELSE Some(body.first_offset + body.len - 1)

\* The message bodies the peers send.
StoreBodies ==
    [ first_offset : Offsets, len : 0 .. MaxLen, sequencer : NodeIds,
      ignore_seal : BOOLEAN, expired : BOOLEAN, known_global_tail : KnownGlobalTails ]

TrimBodies == [ trim_point : Offsets, known_global_tail : KnownGlobalTails ]

GetRecordsBodies ==
    [ from_offset : Offsets, to_offset : Offsets, known_global_tail : KnownGlobalTails ]

\* ------------------------------------------------------------------ state

VARIABLES
    \* LogletState
    local_tail,              \* local_tail().offset()
    sealed,                  \* is_sealed()
    trim_point,
    sequencer,
    \* GlobalTailTracker and the worker's subscription to it
    global_tail,
    tracker_changed,         \* global_tail_subscriber has an unseen value
    \* the locals of LogletWorker::run
    sealing_in_progress,
    staging_local_tail,
    known_global_tail,
    in_flight_stores,
    in_flight_seal,
    waiting_for_seal,
    in_flight_network_sends,
    \* the mailbox: queued messages per receiver
    inbox,
    \* the worker task and the cancellation signal
    worker,                  \* "running", "stopped" or "panicked"
    cancelled,
    \* disposable tasks
    trim_tasks,
    read_tasks,
    \* the log store
    log_store_disabled,
    \* the peers
    sent,                    \* requests and tracker updates so far
    last_response,           \* the response put on the connection last
    \* history
    seal_dequeued,           \* seal_rx.recv() has returned a Seal
    panicked_store,          \* the Store that reached todo!(), if one did
    persist_sequencer_stores, \* enqueue_store calls with persist_sequencer = true
    overtaken_stores,        \* Stores left in store_rx by the last Seal dequeued
    \* the log store's durable state of the loglet
    persisted_local_tail,    \* one past the last record made durable
    persisted_trim_point,    \* the trim point made durable
    log_records,             \* the records a read finds at each offset
    was                      \* the state the last step started from

loglet_state == << local_tail, sealed, trim_point, sequencer >>
tracker == << global_tail, tracker_changed >>
locals == << sealing_in_progress, staging_local_tail, known_global_tail >>
futures ==
    << in_flight_stores, in_flight_seal, waiting_for_seal, in_flight_network_sends >>
tasks == << trim_tasks, read_tasks >>
persisted == << persisted_local_tail, persisted_trim_point >>

vars ==
    << local_tail, sealed, trim_point, sequencer, global_tail, tracker_changed,
       sealing_in_progress, staging_local_tail, known_global_tail,
       in_flight_stores, in_flight_seal, waiting_for_seal,
       in_flight_network_sends, inbox, worker, cancelled, trim_tasks,
       read_tasks, log_store_disabled, sent, last_response, seal_dequeued,
       panicked_store,
       persist_sequencer_stores, overtaken_stores, log_records, persisted_local_tail,
       persisted_trim_point, was >>

\* The state of the worker, its peers and its collaborators, as a step finds
\* it.
Snapshot ==
    [ local_tail |-> local_tail, sealed |-> sealed, trim_point |-> trim_point,
      sequencer |-> sequencer, global_tail |-> global_tail,
      tracker_changed |-> tracker_changed,
      sealing_in_progress |-> sealing_in_progress,
      staging_local_tail |-> staging_local_tail,
      known_global_tail |-> known_global_tail,
      in_flight_stores |-> in_flight_stores, in_flight_seal |-> in_flight_seal,
      waiting_for_seal |-> waiting_for_seal,
      in_flight_network_sends |-> in_flight_network_sends, inbox |-> inbox,
      worker |-> worker, cancelled |-> cancelled, trim_tasks |-> trim_tasks,
      read_tasks |-> read_tasks, log_store_disabled |-> log_store_disabled,
      sent |-> sent, last_response |-> last_response,
      seal_dequeued |-> seal_dequeued, panicked_store |-> panicked_store,
      persist_sequencer_stores |-> persist_sequencer_stores,
      overtaken_stores |-> overtaken_stores,
      persisted_local_tail |-> persisted_local_tail,
      persisted_trim_point |-> persisted_trim_point ]

\* Every step leaves behind the state it started from.
Remember == was' = Snapshot

Kinds ==
    { "store_rx", "release_rx", "seal_rx", "get_loglet_info_rx",
      "get_records_rx", "trim_rx" }

RemoveAt(s, i) == SubSeq(s, 1, i - 1) \o SubSeq(s, i + 1, Len(s))

\* LogletStateMap::get_or_load on an empty log store, then LogletWorker::start
\* and the first lines of run.
Init ==
    /\ local_tail = OLDEST
    /\ sealed = FALSE
    /\ trim_point = INVALID
    /\ sequencer = None
    /\ global_tail = INVALID
    /\ tracker_changed = FALSE
    /\ sealing_in_progress = FALSE
    /\ staging_local_tail = OLDEST
    /\ known_global_tail = INVALID
    /\ in_flight_stores = << >>
    /\ in_flight_seal = None
    /\ waiting_for_seal = << >>
    /\ in_flight_network_sends = << >>
    /\ inbox = [ k \in Kinds |-> 0 ]
    /\ worker = "running"
    /\ cancelled = FALSE
    /\ trim_tasks = << >>
    /\ read_tasks = << >>
    /\ log_store_disabled = FALSE
    /\ sent = 0
    /\ last_response = [ kind |-> "None" ]
    /\ seal_dequeued = FALSE
    /\ panicked_store = None
    /\ persist_sequencer_stores = 0
    /\ overtaken_stores = 0
    /\ persisted_local_tail = OLDEST
    /\ persisted_trim_point = INVALID
    /\ log_records = [ o \in 1 .. MaxReadOffset |-> "none" ]
    /\ was = Snapshot


\* ------------------------------------------------------- the collaborators

\* TailOffsetWatch::notify_offset_update: the published offset never
\* regresses, and the seal marker published with it stays as it is.
notify_offset_update(tail, offset) == Max(tail, offset)

\* LogletState::update_trim_point: the new value; it advanced iff it grew.
update_trim_point(current, new) == Max(current, new)

\* GlobalTailTracker::maybe_update.
maybe_update(current, x) == Max(current, x)

\* The response bodies. Stored::empty, Sealed::empty, ... carry no tail.
Stored(tail, status) ==
    [ kind |-> "Stored", status |-> status, local_tail |-> tail ]

Sealed(tail, status) ==
    [ kind |-> "Sealed", status |-> status, local_tail |-> tail ]

LogletInfo(tail, trim, is_sealed) ==
    [ kind |-> "LogletInfo", status |-> "Ok", local_tail |-> tail,
      trim_point |-> trim, sealed |-> is_sealed ]

Trimmed(tail, status) ==
    [ kind |-> "Trimmed", status |-> status, local_tail |-> tail ]

Records(tail, status) ==
    [ kind |-> "Records", status |-> status, local_tail |-> tail ]

\* What a prepared response remembers of the Store it answers (the message
\* its in_response_to names), and whether that Store waited in store_rx
\* while a Seal was dequeued.
StoreReq(peer, body) ==
    [ peer |-> peer, first_offset |-> body.first_offset, len |-> body.len,
      sequencer |-> body.sequencer, ignore_seal |-> body.ignore_seal,
      expired |-> body.expired, overtaken |-> overtaken_stores > 0 ]

\* ------------------------------------------------------------- the peers

\* LogletWorkerHandle::enqueue_store, enqueue_release, enqueue_seal,
\* enqueue_get_loglet_info, enqueue_get_records, enqueue_trim: the send fails
\* once the worker has dropped its receivers.
enqueue(k) ==
    /\ worker = "running"
    /\ sent < MaxRequests
    /\ inbox["store_rx"] + inbox["release_rx"] + inbox["seal_rx"]
         + inbox["get_loglet_info_rx"] + inbox["get_records_rx"]
         + inbox["trim_rx"] < MaxQueued
    /\ inbox' = [ inbox EXCEPT ![k] = @ + 1 ]
    /\ sent' = sent + 1
    /\ UNCHANGED << loglet_state, tracker, locals, futures, worker, cancelled,
                    tasks, log_store_disabled, last_response, seal_dequeued,
                    panicked_store,
                    persist_sequencer_stores, overtaken_stores, log_records, persisted >>

\* Another holder of the tracker publishes a higher global tail.
TrackerUpdate(x) ==
    /\ worker = "running"
    /\ sent < MaxRequests
    /\ sent' = sent + 1
    /\ x > global_tail
    /\ global_tail' = maybe_update(global_tail, x)
    /\ tracker_changed' = TRUE
    /\ UNCHANGED << loglet_state, locals, futures, inbox, worker, cancelled,
                    tasks, log_store_disabled, last_response, seal_dequeued,
                    panicked_store,
                    persist_sequencer_stores, overtaken_stores, log_records, persisted >>

\* ---------------------------------------------------------- the log store

\* The log store answers an enqueue or resolves a token: Ok, or Err once it
\* is in fail-safe mode, which it never leaves. It enters fail-safe mode at
\* any time; the model lets it do so when the failure is first seen.
LogStoreAnswers(ok) ==
    /\ ok => ~log_store_disabled
    /\ log_store_disabled' = ~ok

\* The completion token of an enqueued store resolves: Ok on durability, Err
\* in fail-safe. Tokens of one loglet may resolve in any order. The tail a
\* reload discovers is one past the last durable record.
StoreTokenResolves(i, ok) ==
    /\ i \in 1 .. Len(in_flight_stores)
    /\ in_flight_stores[i].token = "pending"
    /\ LogStoreAnswers(ok)
    /\ in_flight_stores' =
           [ in_flight_stores EXCEPT ![i].token = IF ok THEN "ok" ELSE "err" ]
    /\ persisted_local_tail' =
           IF ok
           THEN Max(persisted_local_tail,
                    in_flight_stores[i].future_last_committed)
           ELSE persisted_local_tail
    /\ UNCHANGED << loglet_state, tracker, locals, in_flight_seal,
                    waiting_for_seal, in_flight_network_sends, inbox, worker,
                    cancelled, tasks, sent, last_response, seal_dequeued,
                    panicked_store,
                    persist_sequencer_stores, overtaken_stores, log_records, persisted_trim_point >>

\* The seal token resolves and the log store itself marks the loglet sealed.
SealTokenResolves_notifies_seal(ok) ==
    /\ in_flight_seal = Some("pending")
    /\ LogStoreAnswers(ok)
    /\ in_flight_seal' = Some(IF ok THEN "ok" ELSE "err")
    /\ sealed' = (sealed \/ ok)
    /\ UNCHANGED << local_tail, trim_point, sequencer, tracker, locals,
                    in_flight_stores, waiting_for_seal,
                    in_flight_network_sends, inbox, worker, cancelled, tasks,
                    sent, last_response, seal_dequeued, panicked_store,
                    persist_sequencer_stores, overtaken_stores, log_records,
                    persisted >>

\* The completion token of the enqueued seal resolves.
SealTokenResolves(ok) ==
    /\ in_flight_seal = Some("pending")
    /\ LogStoreAnswers(ok)
    /\ in_flight_seal' = Some(IF ok THEN "ok" ELSE "err")
    /\ UNCHANGED << loglet_state, tracker, locals, in_flight_stores,
                    waiting_for_seal, in_flight_network_sends, inbox, worker,
                    cancelled, tasks, sent, last_response, seal_dequeued,
                    panicked_store,
                    persist_sequencer_stores, overtaken_stores, log_records, persisted >>

\* -------------------------------------------------- the worker: tokio::select!

\* The branches of the biased select, in the order they are polled.
StoreCompletionReady ==
    \E i \in 1 .. Len(in_flight_stores) : in_flight_stores[i].token # "pending"

\* The seal branch taken on any resolved token, a failed one included.
SealCompletionReady_any_result ==
    in_flight_seal # None /\ in_flight_seal # Some("pending")

\* Some(Ok(_)) = &mut in_flight_seal
SealCompletionReady == in_flight_seal = Some("ok")

\* A waiter that answers without waiting for the seal.
SealWaiterReady_unsealed == waiting_for_seal # << >>

\* wait_for_seal() resolves once the seal is notified, for every waiter.
SealWaiterReady == waiting_for_seal # << >> /\ sealed

NetworkSendReady == in_flight_network_sends # << >>

Ready(n) ==
    CASE n = 1 -> cancelled
      [] n = 2 -> StoreCompletionReady
      [] n = 3 -> SealCompletionReady
      [] n = 4 -> SealWaiterReady
      [] n = 5 -> NetworkSendReady
      [] n = 6 -> tracker_changed
      [] n = 7 -> inbox["release_rx"] > 0
      [] n = 8 -> inbox["seal_rx"] > 0
      [] n = 9 -> inbox["get_loglet_info_rx"] > 0
      [] n = 10 -> inbox["get_records_rx"] > 0
      [] n = 11 -> inbox["trim_rx"] > 0
      [] n = 12 -> inbox["store_rx"] > 0

\* The select with the receivers polled in no fixed order: the completions
\* keep their rank, a message is taken from any inbox that holds one.
Selects_receivers_unordered(n) ==
    /\ worker = "running"
    /\ Ready(n)
    /\ \A m \in 1 .. 6 : m < n => ~Ready(m)

\* The select with the receivers polled before the completions: a message is
\* taken from its inbox whatever completion is ready.
Selects_receivers_first(n) ==
    /\ worker = "running"
    /\ Ready(n)
    /\ \A m \in 1 .. 12 : (m < n /\ (n <= 6 \/ m = 1 \/ m >= 7)) => ~Ready(m)

\* The select with the seal completion polled before the store completions.
Selects_seal_completion_first(n) ==
    /\ worker = "running"
    /\ Ready(n)
    /\ \A m \in 1 .. 12 :
           (IF n = 2 THEN m \in { 1, 3 } ELSE IF n = 3 THEN m = 1 ELSE m < n)
           => ~Ready(m)

\* The select without `biased;`: any ready branch may be taken.
Selects_unbiased(n) == worker = "running" /\ Ready(n)

\* The select takes branch n: it is ready and no branch polled before it is.
Selects(n) ==
    /\ worker = "running"
    /\ Ready(n)
    /\ \A m \in 1 .. 12 : m < n => ~Ready(m)

recv(k) == inbox' = [ inbox EXCEPT ![k] = @ - 1 ]

\* The cached known_global_tail assigned from the message as it comes.
FoldKnownGlobalTail_overwrites(hint) ==
    /\ global_tail' = maybe_update(global_tail, hint)
    /\ tracker_changed' = (tracker_changed \/ hint > global_tail)
    /\ known_global_tail' = hint

\* self.global_tail_tracker.maybe_update(msg.known_global_tail);
\* known_global_tail = known_global_tail.max(msg.known_global_tail);
FoldKnownGlobalTail(hint) ==
    /\ global_tail' = maybe_update(global_tail, hint)
    /\ tracker_changed' = (tracker_changed \/ hint > global_tail)
    /\ known_global_tail' = Max(known_global_tail, hint)

\* LogletWorkerHandle::cancel and `_ = &mut shutdown`: the worker sees the
\* cancellation at its next poll, before any other branch, whatever else is
\* ready; the loop returns and drops its futures and receivers.
Shutdown ==
    /\ worker = "running"
    /\ cancelled' = TRUE
    /\ worker' = "stopped"
    /\ in_flight_stores' = << >>
    /\ in_flight_seal' = None
    /\ waiting_for_seal' = << >>
    /\ in_flight_network_sends' = << >>
    /\ inbox' = [ k \in Kinds |-> 0 ]
    /\ UNCHANGED << loglet_state, tracker, locals, tasks, log_store_disabled,
                    sent, last_response, seal_dequeued,
                    panicked_store,
                    persist_sequencer_stores, overtaken_stores, log_records, persisted >>

\* StoreCompleted with the response built from the tail as it was read
\* before notify_offset_update.
StoreCompleted_stale_tail(f) ==
    IF f.token = "ok"
    THEN LET tail == notify_offset_update(local_tail, f.future_last_committed)
         IN  [ local_tail |-> tail, sealed |-> sealed,
               response |-> Stored(local_tail, f.status) ]
    ELSE [ local_tail |-> local_tail, sealed |-> sealed,
           response |-> Stored(INVALID, "Disabled") ]

\* StoreCompleted with the result of the store token ignored.
StoreCompleted_ignores_result(f) ==
    LET tail == notify_offset_update(local_tail, f.future_last_committed)
    IN  [ local_tail |-> tail, sealed |-> sealed,
          response |-> Stored(tail, f.status) ]

\* StoreCompleted with the tail written as the store's own end, not
\* published through the watch.
StoreCompleted_overwrites_tail(f) ==
    IF f.token = "ok"
    THEN [ local_tail |-> f.future_last_committed, sealed |-> sealed,
           response |-> Stored(f.future_last_committed, f.status) ]
    ELSE [ local_tail |-> local_tail, sealed |-> sealed,
           response |-> Stored(INVALID, "Disabled") ]

\* StoreCompleted with the tail published as an open one: the seal marker of
\* the watch is lost.
StoreCompleted_publishes_open_tail(f) ==
    IF f.token = "ok"
    THEN LET tail == notify_offset_update(local_tail, f.future_last_committed)
         IN  [ local_tail |-> tail, sealed |-> FALSE,
               response |-> Stored(tail, f.status) ]
    ELSE [ local_tail |-> local_tail, sealed |-> sealed,
           response |-> Stored(INVALID, "Disabled") ]

\* The future pushed to in_flight_stores, once its store token has resolved.
StoreCompleted(f) ==
    IF f.token = "ok"
    THEN LET tail == notify_offset_update(local_tail, f.future_last_committed)
         IN  [ local_tail |-> tail, sealed |-> sealed,
               response |-> Stored(tail, f.status) ]
    ELSE [ local_tail |-> local_tail, sealed |-> sealed,
           response |-> Stored(INVALID, "Disabled") ]

\* Some(_) = in_flight_stores.next()
StoreCompletion(i) ==
    /\ Selects(2)
    /\ i \in 1 .. Len(in_flight_stores)
    /\ in_flight_stores[i].token # "pending"
    /\ LET done == StoreCompleted(in_flight_stores[i])
       IN  /\ local_tail' = done.local_tail
           /\ sealed' = done.sealed
           /\ last_response' = done.response
    /\ in_flight_stores' = RemoveAt(in_flight_stores, i)
    /\ UNCHANGED << trim_point, sequencer, tracker, locals,
                    in_flight_seal, waiting_for_seal, in_flight_network_sends,
                    inbox, worker, cancelled, tasks, log_store_disabled, sent, seal_dequeued,
                    panicked_store,
                    persist_sequencer_stores, overtaken_stores, log_records, persisted >>

\* Some(Ok(_)) = &mut in_flight_seal
SealCompletion ==
    /\ Selects(3)
    /\ sealing_in_progress' = FALSE
    /\ sealed' = TRUE
    /\ in_flight_seal' = None
    /\ UNCHANGED << local_tail, trim_point, sequencer, tracker,
                    staging_local_tail, known_global_tail, in_flight_stores,
                    waiting_for_seal, in_flight_network_sends, inbox, worker,
                    cancelled, tasks, log_store_disabled, sent, last_response, seal_dequeued,
                    panicked_store,
                    persist_sequencer_stores, overtaken_stores, log_records, persisted >>

\* Some(_) = waiting_for_seal.next(): a waiter saw the seal and answers.
SealWaiter(i) ==
    /\ Selects(4)
    /\ i \in 1 .. Len(waiting_for_seal)
    /\ last_response' = Sealed(local_tail, "Ok")
    /\ waiting_for_seal' = RemoveAt(waiting_for_seal, i)
    /\ UNCHANGED << loglet_state, tracker, locals, in_flight_stores,
                    in_flight_seal, in_flight_network_sends, inbox, worker,
                    cancelled, tasks, log_store_disabled, sent, seal_dequeued,
                    panicked_store,
                    persist_sequencer_stores, overtaken_stores, log_records, persisted >>

\* Some(_) = in_flight_network_sends.next()
NetworkSend ==
    /\ Selects(5)
    /\ last_response' = Head(in_flight_network_sends).msg
    /\ in_flight_network_sends' = Tail(in_flight_network_sends)
    /\ UNCHANGED << loglet_state, tracker, locals, in_flight_stores,
                    in_flight_seal, waiting_for_seal, inbox, worker, cancelled,
                    tasks, log_store_disabled, sent, seal_dequeued,
                    panicked_store,
                    persist_sequencer_stores, overtaken_stores, log_records, persisted >>

\* Ok(_) = global_tail_subscriber.changed()
TrackerChanged ==
    /\ Selects(6)
    /\ known_global_tail' = Max(known_global_tail, global_tail)
    /\ tracker_changed' = FALSE
    /\ UNCHANGED << loglet_state, global_tail, sealing_in_progress,
                    staging_local_tail, futures, inbox, worker, cancelled, tasks,
                    log_store_disabled, sent, last_response, seal_dequeued,
                    panicked_store,
                    persist_sequencer_stores, overtaken_stores, log_records, persisted >>

\* RELEASE
Release(hint) ==
    /\ Selects(7)
    /\ recv("release_rx")
    /\ FoldKnownGlobalTail(hint)
    /\ UNCHANGED << loglet_state, sealing_in_progress, staging_local_tail,
                    futures, worker, cancelled, tasks, log_store_disabled, sent,
                    last_response, seal_dequeued,
                    panicked_store,
                    persist_sequencer_stores, overtaken_stores, log_records, persisted >>


\* process_seal without the early return on a sealed loglet.
process_seal_seals_again(enqueued) ==
    [ sealing_in_progress |-> TRUE,
      seal_token |-> IF enqueued THEN Some("pending") ELSE None,
      asks |-> TRUE ]

\* process_seal with the gate opened again when the log store refuses the
\* seal.
process_seal_gives_up(enqueued) ==
    IF sealed
    THEN [ sealing_in_progress |-> FALSE, seal_token |-> None, asks |-> FALSE ]
    ELSE [ sealing_in_progress |-> enqueued,
           seal_token |-> IF enqueued THEN Some("pending") ELSE None,
           asks |-> TRUE ]

\* process_seal with the token of the enqueued seal thrown away.
process_seal_forgets_token(enqueued) ==
    IF sealed
    THEN [ sealing_in_progress |-> FALSE, seal_token |-> None, asks |-> FALSE ]
    ELSE [ sealing_in_progress |-> TRUE, seal_token |-> None, asks |-> TRUE ]

\* LogletWorker::process_seal: the gate and the seal token (None when the
\* loglet is sealed already or the log store refuses the seal).
process_seal(enqueued) ==
    IF sealed
    THEN [ sealing_in_progress |-> FALSE, seal_token |-> None, asks |-> FALSE ]
    ELSE [ sealing_in_progress |-> TRUE,
           seal_token |-> IF enqueued THEN Some("pending") ELSE None,
           asks |-> TRUE ]

\* Some(msg) = seal_rx.recv()
Seal(peer, hint, enqueued) ==
    /\ Selects(8)
    /\ recv("seal_rx")
    /\ FoldKnownGlobalTail(hint)
    /\ waiting_for_seal' = Append(waiting_for_seal, peer)
    /\ seal_dequeued' = TRUE
    /\ LET r == process_seal(enqueued)
       IN  /\ sealing_in_progress' = r.sealing_in_progress
           /\ in_flight_seal' =
                  IF r.seal_token # None THEN r.seal_token ELSE in_flight_seal
           /\ IF r.asks
              THEN LogStoreAnswers(enqueued)
              ELSE enqueued /\ UNCHANGED log_store_disabled
    /\ overtaken_stores' = inbox["store_rx"]
    /\ UNCHANGED << loglet_state, staging_local_tail, in_flight_stores,
                    in_flight_network_sends, worker, cancelled, tasks, sent,
                    last_response, panicked_store,
                    persist_sequencer_stores, log_records, persisted >>

\* The info built from the staging tail of the worker.
loglet_info_staging == LogletInfo(staging_local_tail, trim_point, sealed)

\* LogletInfo::new(self.loglet_state.local_tail(), self.loglet_state.trim_point())
loglet_info == LogletInfo(local_tail, trim_point, sealed)

\* GET_LOGLET_INFO: try_respond_rpc drops the response when the peer's channel
\* is full or closed.
GetLogletInfo(hint, delivered) ==
    /\ Selects(9)
    /\ recv("get_loglet_info_rx")
    /\ FoldKnownGlobalTail(hint)
    /\ last_response' =
           IF delivered
           THEN loglet_info
           ELSE last_response
    /\ UNCHANGED << loglet_state, sealing_in_progress, staging_local_tail,
                    futures, worker, cancelled, tasks, log_store_disabled, sent, seal_dequeued,
                    panicked_store,
                    persist_sequencer_stores, overtaken_stores, log_records, persisted >>

\* GET_RECORDS: process_get_records spawns the read as a disposable task.
GetRecords(body) ==
    /\ Selects(10)
    /\ recv("get_records_rx")
    /\ FoldKnownGlobalTail(body.known_global_tail)
    /\ read_tasks' =
           Append(read_tasks,
                  [ from_offset |-> body.from_offset, to_offset |-> body.to_offset ])
    /\ UNCHANGED << loglet_state, sealing_in_progress, staging_local_tail,
                    futures, worker, cancelled, trim_tasks, log_store_disabled,
                    sent, last_response, seal_dequeued,
                    panicked_store,
                    persist_sequencer_stores, overtaken_stores, log_records, persisted >>

\* TRIM: process_trim spawns the trim as a disposable task that carries the
\* known_global_tail of the moment. The task may rewrite msg.trim_point;
\* `asked` remembers the point the peer sent.
Trim(body) ==
    /\ Selects(11)
    /\ recv("trim_rx")
    /\ FoldKnownGlobalTail(body.known_global_tail)
    /\ trim_tasks' =
           Append(trim_tasks,
                  [ trim_point |-> body.trim_point,
                    asked |-> body.trim_point,
                    known_global_tail |-> known_global_tail',
                    pc |-> "spawned" ])
    /\ UNCHANGED << loglet_state, sealing_in_progress, staging_local_tail,
                    futures, worker, cancelled, read_tasks, log_store_disabled,
                    sent, last_response, seal_dequeued,
                    panicked_store,
                    persist_sequencer_stores, overtaken_stores, log_records, persisted >>

\* A Store that is turned away after the staging tail was moved past it.
Rejected_moves_staging(status, staging) ==
    [ status |-> status, store_token |-> FALSE,
      staging_local_tail |-> next(staging),
      sequencer |-> sequencer, asks |-> FALSE, persist_sequencer |-> FALSE ]

\* A Store that is turned away: no token, nothing moves.
Rejected(status, staging) ==
    [ status |-> status, store_token |-> FALSE, staging_local_tail |-> staging,
      sequencer |-> sequencer, asks |-> FALSE, persist_sequencer |-> FALSE ]

\* The checks of process_store, in the order it makes them.

\* if !body.flags.contains(StoreFlags::IgnoreSeal) && self.loglet_state.is_sealed()
is_sealed_for(body) == ~body.ignore_seal /\ sealed

\* The seal gate left out of the checks.
is_sealing_unchecked == FALSE

\* if *sealing_in_progress
is_sealing == sealing_in_progress

\* payloads.is_empty(), last_offset() is Err, first_offset == INVALID
is_malformed(body) ==
    \/ body.len = 0
    \/ last_offset(body) = None
    \/ body.first_offset = INVALID

\* The sequencer checks without the comparison of the peer against the
\* store's sequencer.
is_sequencer_mismatch_recorded_only(peer, body, next_ok_offset) ==
    sequencer # None /\ unwrap(sequencer) # body.sequencer

\* The sequencer checks without the comparison against the recorded
\* sequencer.
is_sequencer_mismatch_peer_only(peer, body, next_ok_offset) ==
    body.first_offset < next_ok_offset /\ peer # body.sequencer

\* The recorded sequencer differs from the store's; or the store writes
\* below next_ok_offset and its peer is not the sequencer it names.
is_sequencer_mismatch(peer, body, next_ok_offset) ==
    \/ sequencer # None /\ unwrap(sequencer) # body.sequencer
    \/ body.first_offset < next_ok_offset /\ peer # body.sequencer

\* "store happens anyway": a repair store goes on to the log store.
is_repair_store_stored_anyway(body) == FALSE

\* if body.flags.contains(StoreFlags::IgnoreSeal) { todo!(...) }
is_repair_store(body) == body.ignore_seal

\* The bound compared one offset too far.
is_out_of_bounds_off_by_one(body, next_ok_offset) ==
    body.first_offset > next(next_ok_offset)

\* if body.first_offset > next_ok_offset
is_out_of_bounds(body, next_ok_offset) == body.first_offset > next_ok_offset

\* The sequencer handed to the log store's metadata with every store.
set_sequencer_in_metadata_always == TRUE

\* let set_sequncer_in_metadata = if known_sequencer.is_none() {
\*     self.loglet_state.set_sequencer(body.sequencer) } else { false };
set_sequencer_in_metadata == sequencer = None

\* LogletWorker::process_store: the status, whether the log store holds the
\* store now, the staging tail and the recorded sequencer afterwards.
\* "Panic" stands for todo!("repair stores are not implemented yet");
\* `enqueued` is the log store's answer to enqueue_store, `asks` whether it
\* was asked.
process_store(peer, body, staging, next_ok_offset, enqueued) ==
    IF is_sealed_for(body) THEN Rejected("Sealed", staging)
    ELSE IF is_sealing THEN Rejected("Sealing", staging)
    ELSE IF body.expired THEN Rejected("Dropped", staging)
    ELSE IF is_malformed(body) THEN Rejected("Malformed", staging)
    ELSE IF is_sequencer_mismatch(peer, body, next_ok_offset)
         THEN Rejected("SequencerMismatch", staging)
    ELSE IF is_repair_store(body) THEN Rejected("Panic", staging)
    ELSE IF is_out_of_bounds(body, next_ok_offset)
         THEN Rejected("OutOfBounds", staging)
    ELSE IF ~enqueued
         THEN [ status |-> "Disabled", store_token |-> FALSE,
                staging_local_tail |-> staging,
                sequencer |-> Some(body.sequencer), asks |-> TRUE,
                persist_sequencer |-> set_sequencer_in_metadata ]
    ELSE [ status |-> "Ok", store_token |-> TRUE,
           staging_local_tail |-> next(unwrap(last_offset(body))),
           sequencer |-> Some(body.sequencer), asks |-> TRUE,
           persist_sequencer |-> set_sequencer_in_metadata ]

\* The next offset taken from the known_global_tail cached before the
\* message came.
next_ok_offset_before_fold(staging, known) == Max(staging, known_global_tail)

\* The next offset taken from the durable tail, not from the staging one.
next_ok_offset_durable(staging, known) == Max(local_tail, known)

\* let next_ok_offset = std::cmp::max(staging_local_tail, known_global_tail);
next_ok_offset(staging, known) == Max(staging, known)

\* The new future put ahead of the older ones.
push_front(in_flight, future) == << future >> \o in_flight

\* in_flight_stores.push(async move { ... }): the futures are kept in the
\* order the worker pushed them.
push(in_flight, future) == Append(in_flight, future)

\* STORE
Store(peer, body, enqueued) ==
    /\ Selects(12)
    /\ recv("store_rx")
    /\ FoldKnownGlobalTail(body.known_global_tail)
    /\ LET r == process_store(peer, body, staging_local_tail,
                              next_ok_offset(staging_local_tail, known_global_tail'),
                              enqueued)
       IN  /\ IF r.asks
              THEN LogStoreAnswers(enqueued)
              ELSE enqueued /\ UNCHANGED log_store_disabled
           /\ persist_sequencer_stores' =
                  IF r.persist_sequencer
                  THEN persist_sequencer_stores + 1
                  ELSE persist_sequencer_stores
           /\ IF r.status = "Panic"
              THEN /\ worker' = "panicked"
                   /\ in_flight_stores' = << >>
                   /\ in_flight_seal' = None
                   /\ waiting_for_seal' = << >>
                   /\ in_flight_network_sends' = << >>
                   /\ panicked_store' = Some(StoreReq(peer, body))
                   /\ UNCHANGED << staging_local_tail, sequencer >>
              ELSE /\ staging_local_tail' = r.staging_local_tail
                   /\ sequencer' = r.sequencer
                   /\ in_flight_stores' =
                          IF r.store_token
                          THEN push(in_flight_stores,
                                    [ req |-> StoreReq(peer, body),
                                      future_last_committed |->
                                          r.staging_local_tail,
                                      status |-> r.status,
                                      token |-> "pending" ])
                          ELSE in_flight_stores
                   /\ in_flight_network_sends' =
                          IF r.store_token
                          THEN in_flight_network_sends
                          ELSE Append(in_flight_network_sends,
                                      [ req |-> StoreReq(peer, body),
                                        msg |-> Stored(local_tail, r.status) ])
                   /\ UNCHANGED << worker, in_flight_seal, waiting_for_seal,
                                   panicked_store >>
    /\ overtaken_stores' = IF overtaken_stores > 0 THEN overtaken_stores - 1 ELSE 0
    /\ UNCHANGED << local_tail, sealed, trim_point, sealing_in_progress,
                    cancelled, tasks, sent, last_response, seal_dequeued,
                    persisted, log_records >>

\* What a step of the STORE branch leaves behind: a response pushed to
\* in_flight_network_sends, a future pushed to in_flight_stores, or the panic
\* of todo!().
StoreRejected ==
    Len(in_flight_network_sends) = Len(was.in_flight_network_sends) + 1

StoreEnqueued == Len(in_flight_stores) = Len(was.in_flight_stores) + 1

StorePanicked == was.worker = "running" /\ worker = "panicked"

\* A step of the Seal branch pushes a waiter; a waiter that answers leaves
\* waiting_for_seal while the worker goes on.
SealDequeued == Len(waiting_for_seal) = Len(was.waiting_for_seal) + 1

SealAnswered ==
    /\ Len(waiting_for_seal) = Len(was.waiting_for_seal) - 1
    /\ worker = "running"

\* A step of `Some(_) = in_flight_stores.next()`: a store future completed
\* and answered.
StoreAnswered ==
    /\ Len(in_flight_stores) = Len(was.in_flight_stores) - 1
    /\ worker = "running"

\* A step of `Some(_) = in_flight_network_sends.next()`: the answer to a
\* Store that was turned away leaves.
RejectionSent ==
    /\ Len(in_flight_network_sends) = Len(was.in_flight_network_sends) - 1
    /\ worker = "running"

rejected_store == in_flight_network_sends[Len(in_flight_network_sends)]

\* A step of the RELEASE branch, of the GET_LOGLET_INFO branch: the message
\* left its inbox while the worker went on.
ReleaseDequeued ==
    inbox["release_rx"] < was.inbox["release_rx"] /\ worker = "running"

GetLogletInfoDequeued ==
    /\ inbox["get_loglet_info_rx"] < was.inbox["get_loglet_info_rx"]
    /\ worker = "running"

\* The rank of a receiver among the branches of the select, and the step
\* that takes a message from it.
Rank(k) ==
    CASE k = "release_rx" -> 7
      [] k = "seal_rx" -> 8
      [] k = "get_loglet_info_rx" -> 9
      [] k = "get_records_rx" -> 10
      [] k = "trim_rx" -> 11
      [] k = "store_rx" -> 12

Dequeued(k) == inbox[k] < was.inbox[k] /\ worker # "stopped"

\* A step of `Some(Ok(_)) = &mut in_flight_seal`, and of
\* `Ok(_) = global_tail_subscriber.changed()`.
SealCompleted ==
    was.in_flight_seal # None /\ in_flight_seal = None /\ worker = "running"

TrackerSeen == was.tracker_changed /\ ~tracker_changed

\* A seal is in progress, the log store is in fail-safe mode and it has not
\* confirmed the seal: it has refused it, or has failed its token, or holds
\* a token it can only fail.
SealFailed ==
    /\ sealing_in_progress
    /\ log_store_disabled
    /\ in_flight_seal # Some("ok")

\* The same of the state the step started from.
SealHadFailed ==
    /\ was.sealing_in_progress
    /\ was.log_store_disabled
    /\ was.in_flight_seal # Some("ok")

\* Branch n of the select was ready in the state the step started from.
WasReady(n) ==
    CASE n = 1 -> was.cancelled
      [] n = 2 -> \E i \in 1 .. Len(was.in_flight_stores) :
                      was.in_flight_stores[i].token # "pending"
      [] n = 3 -> was.in_flight_seal = Some("ok")
      [] n = 4 -> was.waiting_for_seal # << >> /\ was.sealed
      [] n = 5 -> was.in_flight_network_sends # << >>
      [] n = 6 -> was.tracker_changed
      [] n = 7 -> was.inbox["release_rx"] > 0
      [] n = 8 -> was.inbox["seal_rx"] > 0
      [] n = 9 -> was.inbox["get_loglet_info_rx"] > 0
      [] n = 10 -> was.inbox["get_records_rx"] > 0
      [] n = 11 -> was.inbox["trim_rx"] > 0
      [] n = 12 -> was.inbox["store_rx"] > 0

\* A step of the worker task: an iteration of its loop that took a branch
\* other than the shutdown one. Each branch takes a message from an inbox, a
\* future from one of the sets the loop polls, or the tracker's new value.
WorkerPolled ==
    /\ was.worker = "running"
    /\ worker # "stopped"
    /\ \/ \E k \in Kinds : inbox[k] < was.inbox[k]
       \/ Len(in_flight_stores) < Len(was.in_flight_stores)
       \/ was.in_flight_seal # None /\ in_flight_seal = None
       \/ Len(waiting_for_seal) < Len(was.waiting_for_seal)
       \/ Len(in_flight_network_sends) < Len(was.in_flight_network_sends)
       \/ was.tracker_changed /\ ~tracker_changed

enqueued_store == in_flight_stores[Len(in_flight_stores)]

\* ------------------------------------------------------ the disposable tasks

\* The requested trim point taken as it is.
clip_forgotten(requested) == requested

\* let trim_point = body.trim_point.min(local_tail.offset().prev());
clip(requested) == Min(requested, prev(local_tail))

\* The trim point assigned, whatever it was before.
set_trim_point_overwrites(new) == new

\* loglet_state.update_trim_point(trim_point): the trim point afterwards.
set_trim_point(new) == update_trim_point(trim_point, new)

\* The trim handed to the log store with the point as the peer asked it.
enqueued_trim_point_unclipped(t) == t.trim_point

\* msg.trim_point = msg.trim_point.min(local_tail.offset().prev());
\* log_store.enqueue_trim(msg.into_body()): the point the log store is handed.
enqueued_trim_point(t) == clip(t.trim_point)

\* LogletStateMap::get_or_load: the LogletState a restart builds from the log
\* store, the persisted trim point and the discovered local tail.
get_or_load ==
    [ local_tail |-> persisted_local_tail, trim_point |-> persisted_trim_point ]

\* The high watermark itself taken as a trim point within bounds.
is_malformed_trim_above_only(t) ==
    t.trim_point < OLDEST \/ t.trim_point > Max(t.known_global_tail, local_tail)

\* let high_watermark = known_global_tail.max(local_tail.offset());
\* if new_trim_point < LogletOffset::OLDEST || new_trim_point >= high_watermark
is_malformed_trim(t) ==
    LET high_watermark == Max(t.known_global_tail, local_tail)
    IN  t.trim_point < OLDEST \/ t.trim_point >= high_watermark

\* Every valid trim taken as an advance and handed to the log store.
trim_point_advanced_always(new) == TRUE

\* if loglet_state.update_trim_point(msg.trim_point): true iff the in-memory
\* trim point moved.
trim_point_advanced(new) == new # trim_point

\* process_trim with the in-memory update left for after the log store's
\* answer: the trim is enqueued while the in-memory trim point stays.
process_trim_log_store_first(t, enqueued) ==
    LET new_trim_point == set_trim_point(clip(t.trim_point))
    IN  IF is_malformed_trim(t)
        THEN [ trim_point |-> trim_point, waits |-> FALSE, asks |-> FALSE,
               response |-> Some(Trimmed(local_tail, "Malformed")) ]
        ELSE IF trim_point_advanced(new_trim_point)
        THEN [ trim_point |-> trim_point,
               waits |-> enqueued, asks |-> TRUE, response |-> None ]
        ELSE [ trim_point |-> trim_point, waits |-> FALSE, asks |-> FALSE,
               response |-> Some(Trimmed(local_tail, "Ok")) ]

\* The "loglet-trim" task of process_trim up to its first await: the check
\* against the high watermark, the clip to local_tail - 1, the in-memory
\* update and the enqueue of the log-store trim. `response` is None while
\* the task waits for the log store, and when enqueue_trim fails (the `?`).
process_trim(t, enqueued) ==
    LET new_trim_point == set_trim_point(clip(t.trim_point))
    IN  IF is_malformed_trim(t)
        THEN [ trim_point |-> trim_point, waits |-> FALSE, asks |-> FALSE,
               response |-> Some(Trimmed(local_tail, "Malformed")) ]
        ELSE IF trim_point_advanced(new_trim_point)
        THEN [ trim_point |-> new_trim_point,
               waits |-> enqueued, asks |-> TRUE, response |-> None ]
        ELSE [ trim_point |-> trim_point, waits |-> FALSE, asks |-> FALSE,
               response |-> Some(Trimmed(local_tail, "Ok")) ]

TrimTaskRuns(i, enqueued) ==
    /\ i \in 1 .. Len(trim_tasks)
    /\ trim_tasks[i].pc = "spawned"
    /\ LET r == process_trim(trim_tasks[i], enqueued)
       IN  /\ trim_point' = r.trim_point
           /\ trim_tasks' =
                  IF r.waits
                  THEN [ trim_tasks EXCEPT
                             ![i].pc = "waiting",
                             ![i].trim_point = enqueued_trim_point(trim_tasks[i]) ]
                  ELSE IF r.response = None
                  THEN [ trim_tasks EXCEPT ![i].pc = "failed" ]
                  ELSE RemoveAt(trim_tasks, i)
           /\ last_response' =
                  IF r.response # None THEN unwrap(r.response) ELSE last_response
           /\ IF r.asks
              THEN LogStoreAnswers(enqueued)
              ELSE enqueued /\ UNCHANGED log_store_disabled
    /\ UNCHANGED << local_tail, sealed, sequencer, tracker, locals, futures,
                    inbox, worker, cancelled, read_tasks, sent, seal_dequeued,
                    panicked_store,
                    persist_sequencer_stores, overtaken_stores, log_records, persisted >>

\* The trim token resolves and the task answers: Ok once the log store has
\* made the trim point it was handed durable, or Disabled in fail-safe.
TrimTaskCompletes(i, ok) ==
    /\ i \in 1 .. Len(trim_tasks)
    /\ trim_tasks[i].pc = "waiting"
    /\ LogStoreAnswers(ok)
    /\ last_response' = Trimmed(local_tail, IF ok THEN "Ok" ELSE "Disabled")
    /\ trim_tasks' = RemoveAt(trim_tasks, i)
    /\ persisted_trim_point' =
           IF ok
           THEN Max(persisted_trim_point, trim_tasks[i].trim_point)
           ELSE persisted_trim_point
    /\ UNCHANGED << loglet_state, tracker, locals, futures, inbox, worker,
                    cancelled, read_tasks, sent, seal_dequeued,
                    panicked_store,
                    persist_sequencer_stores, overtaken_stores, log_records, persisted_local_tail >>

\* A step of a "loglet-trim" task that got past the checks and the in-memory
\* update: it waits for the log store now, or ended in the `?`.
TrimTaskAdvanced ==
    /\ Len(trim_tasks) = Len(was.trim_tasks)
    /\ \E i \in 1 .. Len(was.trim_tasks) :
           /\ was.trim_tasks[i].pc = "spawned"
           /\ trim_tasks[i].pc \in { "waiting", "failed" }

\* A step of the "loglet-trim" task i from its start: it ended with an
\* answer, or got past the checks.
TrimTaskRan(i) ==
    /\ i \in 1 .. Len(was.trim_tasks)
    /\ was.trim_tasks[i].pc = "spawned"
    /\ \/ trim_tasks = RemoveAt(was.trim_tasks, i)
       \/ /\ Len(trim_tasks) = Len(was.trim_tasks)
          /\ trim_tasks[i].pc \in { "waiting", "failed" }

\* The "loglet-read" task of process_get_records; `ok` is the answer of
\* read_records.
ReadTaskRuns(i, ok) ==
    /\ i \in 1 .. Len(read_tasks)
    /\ LET t == read_tasks[i]
       IN  IF t.from_offset > t.to_offset
           THEN /\ last_response' = Records(INVALID, "Malformed")
                /\ ok /\ UNCHANGED log_store_disabled
           ELSE /\ last_response' =
                       Records(local_tail, IF ok THEN "Ok" ELSE "Disabled")
                /\ LogStoreAnswers(ok)
    /\ read_tasks' = RemoveAt(read_tasks, i)
    /\ UNCHANGED << loglet_state, tracker, locals, futures, inbox, worker,
                    cancelled, trim_tasks, sent, seal_dequeued,
                    panicked_store,
                    persist_sequencer_stores, overtaken_stores, log_records, persisted >>

\* ------------------------------------------------------------- the reads

\* What the log store holds at an offset, as a read sees it: nothing, a
\* record that passes the read's filter (of 1 or 2 bytes), or a record the
\* filter leaves out.
RecordKinds == { "none", "small", "large", "filtered" }

record_size(kind) == IF kind = "small" THEN 1 ELSE 2

is_data(kind) == kind \in { "small", "large" }

\* GetRecords with a byte budget (total_limit_in_bytes: None for no limit).
ReadBudgets == { None, Some(1), Some(2) }

ReadRequests ==
    [ from_offset : 1 .. MaxReadOffset, to_offset : 1 .. MaxReadOffset,
      total_limit_in_bytes : ReadBudgets ]

\* The Records response: Records::empty(next_offset) carries no tail and no
\* entries; an entry is (offset, Data | TrimGap{to} | FilteredGap{to}).
RecordsOf(req, tail, status, next_offset, records) ==
    [ kind |-> "Records", status |-> status, local_tail |-> tail,
      next_offset |-> next_offset, records |-> records,
      in_response_to |-> req ]

Entry(offset, kind, to) == [ offset |-> offset, kind |-> kind, to |-> to ]

\* The upper bound taken from the request alone.
to_effective_unbounded(req) == req.to_offset

\* The read stops before the local tail.
to_effective(req) == Min(req.to_offset, prev(local_tail))

\* The trim gap drawn up to the trim point, whatever the range.
trim_gap_end_unclipped(req) == trim_point

\* The TrimGap ends at min(trim_point, to_effective).
trim_gap_end(req) == Min(trim_point, to_effective(req))

\* The budget applied to the first data record as to the others.
within_budget_hard(req, first_record_inserted, used, size) ==
    \/ req.total_limit_in_bytes = None
    \/ used + size <= unwrap(req.total_limit_in_bytes)

\* The budget bounds the cumulative size of the data records, and is soft
\* for the first of them.
within_budget(req, first_record_inserted, used, size) ==
    \/ ~first_record_inserted
    \/ req.total_limit_in_bytes = None
    \/ used + size <= unwrap(req.total_limit_in_bytes)

\* Records that do not pass the filter are coalesced into one FilteredGap
\* over the contiguous range.
push_filtered(records, o) ==
    IF /\ records # << >>
       /\ records[Len(records)].kind = "FilteredGap"
       /\ records[Len(records)].to = prev(o)
    THEN [ records EXCEPT ![Len(records)].to = o ]
    ELSE Append(records, Entry(o, "FilteredGap", o))

\* One past the last emitted entry; the offset asked for when there is none.
resume_after(req, records) ==
    IF records = << >>
    THEN req.from_offset
    ELSE next(records[Len(records)].to)

\* The read walks the records from offset o to the effective upper bound.
\* It ends when the range is exhausted (next_offset is one past the bound)
\* or when a data record does not fit the budget (next_offset is one past
\* the last emitted entry).
RECURSIVE scan(_, _, _, _, _)
scan(req, o, records, used, first_record_inserted) ==
    IF o > to_effective(req)
    THEN [ records |-> records, next_offset |-> next(to_effective(req)) ]
    ELSE IF log_records[o] = "none"
    THEN scan(req, next(o), records, used, first_record_inserted)
    ELSE IF log_records[o] = "filtered"
    THEN scan(req, next(o), push_filtered(records, o), used,
              first_record_inserted)
    ELSE IF within_budget(req, first_record_inserted, used,
                          record_size(log_records[o]))
    THEN scan(req, next(o), Append(records, Entry(o, "Data", o)),
              used + record_size(log_records[o]), TRUE)
    ELSE [ records |-> records, next_offset |-> resume_after(req, records) ]

\* LogStore::read_records: a read that starts at or below the trim point
\* begins with a TrimGap and goes on after it.
read_records(req) ==
    IF req.from_offset <= trim_point
    THEN scan(req, next(trim_gap_end(req)),
              << Entry(req.from_offset, "TrimGap", trim_gap_end(req)) >>,
              0, FALSE)
    ELSE scan(req, req.from_offset, << >>, 0, FALSE)

\* The "loglet-read" task of process_get_records with the records it reads:
\* Malformed when from_offset > to_offset, Disabled when the log store
\* fails the read, the records otherwise.
ReadTaskServes(i, ok) ==
    /\ i \in 1 .. Len(read_tasks)
    /\ LET t == read_tasks[i]
       IN  IF t.from_offset > t.to_offset
           THEN /\ last_response' =
                       RecordsOf(t, INVALID, "Malformed", t.from_offset, << >>)
                /\ ok /\ UNCHANGED log_store_disabled
           ELSE /\ last_response' =
                       IF ok
                       THEN RecordsOf(t, local_tail, "Ok",
                                      read_records(t).next_offset,
                                      read_records(t).records)
                       ELSE RecordsOf(t, local_tail, "Disabled",
                                      t.from_offset, << >>)
                /\ LogStoreAnswers(ok)
    /\ read_tasks' = RemoveAt(read_tasks, i)
    /\ UNCHANGED << loglet_state, tracker, locals, futures, inbox, worker,
                    cancelled, trim_tasks, sent, seal_dequeued, panicked_store,
                    persist_sequencer_stores, overtaken_stores, log_records, persisted >>

\* A loglet with records, some of them trimmed, some written past the local
\* tail (stored, not yet acknowledged), and one read of it.
InitRead ==
    /\ local_tail \in OLDEST .. next(MaxReadOffset)
    /\ trim_point \in INVALID .. MaxReadOffset
    /\ trim_point < local_tail
    /\ log_records \in [ 1 .. MaxReadOffset -> RecordKinds ]
    /\ read_tasks \in { << req >> : req \in ReadRequests }
    /\ sealed = FALSE
    /\ sequencer = None
    /\ global_tail = INVALID
    /\ tracker_changed = FALSE
    /\ sealing_in_progress = FALSE
    /\ staging_local_tail = local_tail
    /\ known_global_tail = INVALID
    /\ in_flight_stores = << >>
    /\ in_flight_seal = None
    /\ waiting_for_seal = << >>
    /\ in_flight_network_sends = << >>
    /\ inbox = [ k \in Kinds |-> 0 ]
    /\ worker = "running"
    /\ cancelled = FALSE
    /\ trim_tasks = << >>
    /\ log_store_disabled = FALSE
    /\ sent = 1
    /\ last_response = [ kind |-> "None" ]
    /\ seal_dequeued = FALSE
    /\ panicked_store = None
    /\ persist_sequencer_stores = 0
    /\ overtaken_stores = 0
    /\ persisted_local_tail = local_tail
    /\ persisted_trim_point = trim_point
    /\ was = Snapshot

NextRead ==
    \E i \in 1 .. Len(read_tasks), ok \in BOOLEAN :
        ReadTaskServes(i, ok) /\ Remember

SpecRead == InitRead /\ [][NextRead]_vars

\* The offsets of the records a read could return as data: they pass the
\* filter and lie in the range, above the trim point and below the local
\* tail.
passing(req) ==
    { o \in 1 .. MaxReadOffset :
          /\ is_data(log_records[o])
          /\ o >= req.from_offset
          /\ o > trim_point
          /\ o <= req.to_offset
          /\ o < local_tail }

\* The offsets of the Data entries of a response.
data_offsets(records) ==
    { records[j].offset : j \in { k \in 1 .. Len(records) : records[k].kind = "Data" } }

\* The cumulative size of the records at a set of offsets.
RECURSIVE size_of(_)
size_of(offsets) ==
    IF offsets = { }
    THEN 0
    ELSE LET o == CHOOSE x \in offsets : TRUE
         IN  record_size(log_records[o]) + size_of(offsets \ { o })

\* The response of a read that the log store served.
ReadServed == last_response.kind = "Records" /\ last_response.status = "Ok"

\* ------------------------------------------------------- the specification

Next ==
    \/ \E k \in Kinds : enqueue(k)
           /\ Remember
    \/ \E x \in KnownGlobalTails : TrackerUpdate(x)
           /\ Remember
    \/ \E i \in 1 .. Len(in_flight_stores), ok \in BOOLEAN :
           StoreTokenResolves(i, ok)
           /\ Remember
    \/ \E ok \in BOOLEAN : SealTokenResolves(ok)
           /\ Remember
    \/ Shutdown
           /\ Remember
    \/ \E i \in 1 .. Len(in_flight_stores) : StoreCompletion(i)
           /\ Remember
    \/ SealCompletion
           /\ Remember
    \/ \E i \in 1 .. Len(waiting_for_seal) : SealWaiter(i)
           /\ Remember
    \/ NetworkSend
           /\ Remember
    \/ TrackerChanged
           /\ Remember
    \/ Selects(7) /\ \E hint \in KnownGlobalTails : Release(hint)
           /\ Remember
    \/ Selects(8) /\ \E peer \in NodeIds, hint \in KnownGlobalTails, enqueued \in BOOLEAN :
                         Seal(peer, hint, enqueued)
           /\ Remember
    \/ Selects(9) /\ \E hint \in KnownGlobalTails, delivered \in BOOLEAN :
                         GetLogletInfo(hint, delivered)
           /\ Remember
    \/ Selects(10) /\ \E body \in GetRecordsBodies : GetRecords(body)
           /\ Remember
    \/ Selects(11) /\ \E body \in TrimBodies : Trim(body)
           /\ Remember
    \/ Selects(12) /\ \E peer \in NodeIds, body \in StoreBodies,
                         enqueued \in BOOLEAN : Store(peer, body, enqueued)
           /\ Remember
    \/ \E i \in 1 .. Len(trim_tasks), enqueued \in BOOLEAN :
           TrimTaskRuns(i, enqueued)
           /\ Remember
    \/ \E i \in 1 .. Len(trim_tasks), ok \in BOOLEAN : TrimTaskCompletes(i, ok)
           /\ Remember
    \/ \E i \in 1 .. Len(read_tasks), ok \in BOOLEAN : ReadTaskRuns(i, ok)
           /\ Remember

Spec == Init /\ [][Next]_vars

\* The log store that keeps the enqueue order of one loglet: a store token
\* resolves once every store enqueued before it has, and the seal token once
\* every store has (no store is enqueued after a seal).
StoreTokenResolvesInOrder(i, ok) ==
    /\ \A j \in 1 .. Len(in_flight_stores) :
           j < i => in_flight_stores[j].token # "pending"
    /\ StoreTokenResolves(i, ok)

SealTokenResolvesInOrder(ok) ==
    /\ \A j \in 1 .. Len(in_flight_stores) :
           in_flight_stores[j].token # "pending"
    /\ SealTokenResolves(ok)

\* in_flight_stores.next() yields the futures in the order their tokens woke
\* them: with tokens resolving in enqueue order, the oldest one.
StoreCompletionInOrder == StoreCompletion(1)

\* Peers that send Stores and Seals only: the iterations of the worker's loop
\* they cause (every branch but the shutdown one), and the answers of the
\* log store to the tokens it holds.
WorkerStep ==
    \/ \E i \in 1 .. Len(in_flight_stores) : StoreCompletion(i)
           /\ Remember
    \/ SealCompletion
           /\ Remember
    \/ \E i \in 1 .. Len(waiting_for_seal) : SealWaiter(i)
           /\ Remember
    \/ NetworkSend
           /\ Remember
    \/ Selects(8) /\ \E peer \in NodeIds, hint \in KnownGlobalTails, enqueued \in BOOLEAN :
                         Seal(peer, hint, enqueued)
           /\ Remember
    \/ Selects(12) /\ \E peer \in NodeIds, body \in StoreBodies,
                         enqueued \in BOOLEAN : Store(peer, body, enqueued)
           /\ Remember

LogStoreStep ==
    \/ \E i \in 1 .. Len(in_flight_stores), ok \in BOOLEAN :
           StoreTokenResolves(i, ok)
           /\ Remember
    \/ \E ok \in BOOLEAN : SealTokenResolves(ok)
           /\ Remember

NextStoresAndSeals ==
    \/ \E k \in { "store_rx", "seal_rx" } : enqueue(k)
           /\ Remember
    \/ Shutdown
           /\ Remember
    \/ WorkerStep
    \/ LogStoreStep

\* The worker task and the log store are scheduled fairly. The select is
\* polled again and again, so a branch that stays the one it takes is taken:
\* the completion of a store, the completion of the seal, a released seal
\* waiter. The log store resolves the seal token it holds, one way or the
\* other. A Seal that waits in the inbox is dequeued. Nothing obliges the
\* peers to send or anybody to cancel, and the Store branch, polled last, is
\* left free to lag.
SpecFair ==
    /\ Init
    /\ [][NextStoresAndSeals]_vars
    /\ WF_vars(Remember /\ \E i \in 1 .. Len(in_flight_stores) : StoreCompletion(i))
    /\ WF_vars(Remember /\ SealCompletion)
    /\ WF_vars(Remember /\ \E i \in 1 .. Len(waiting_for_seal) : SealWaiter(i))
    /\ WF_vars(Remember /\ NetworkSend)
    /\ WF_vars(Remember /\ Selects(8)
                   /\ \E peer \in NodeIds, hint \in KnownGlobalTails,
                          enqueued \in BOOLEAN : Seal(peer, hint, enqueued))
    /\ WF_vars(Remember /\ \E ok \in BOOLEAN : SealTokenResolves(ok))

\* LogletWorkerHandle::cancel: the cancellation token is set while the worker
\* is somewhere in its loop; it sees the signal when it polls the select again.
\* The signal counts among the MaxRequests events that reach the worker.
Cancel ==
    /\ worker = "running"
    /\ ~cancelled
    /\ sent < MaxRequests
    /\ sent' = sent + 1
    /\ cancelled' = TRUE
    /\ UNCHANGED << loglet_state, tracker, locals, futures, inbox, worker,
                    tasks, log_store_disabled, last_response,
                    seal_dequeued, panicked_store,
                    persist_sequencer_stores, overtaken_stores, log_records, persisted >>

\* `_ = &mut shutdown => { return; }`: run returns, and its futures and
\* receivers are dropped with it.
Exit ==
    /\ Selects(1)
    /\ worker' = "stopped"
    /\ in_flight_stores' = << >>
    /\ in_flight_seal' = None
    /\ waiting_for_seal' = << >>
    /\ in_flight_network_sends' = << >>
    /\ inbox' = [ k \in Kinds |-> 0 ]
    /\ UNCHANGED << loglet_state, tracker, locals, cancelled, tasks,
                    log_store_disabled, sent, last_response, seal_dequeued,
                    panicked_store,
                    persist_sequencer_stores, overtaken_stores, log_records, persisted >>

\* The cancellation and the exit of the worker taken apart: between the two
\* the peers, the log store and the disposable tasks go on.
NextCancel ==
    \/ \E k \in Kinds : enqueue(k)
           /\ Remember
    \/ \E x \in KnownGlobalTails : TrackerUpdate(x)
           /\ Remember
    \/ \E i \in 1 .. Len(in_flight_stores), ok \in BOOLEAN :
           StoreTokenResolves(i, ok)
           /\ Remember
    \/ \E ok \in BOOLEAN : SealTokenResolves(ok)
           /\ Remember
    \/ Cancel
           /\ Remember
    \/ Exit
           /\ Remember
    \/ \E i \in 1 .. Len(in_flight_stores) : StoreCompletion(i)
           /\ Remember
    \/ SealCompletion
           /\ Remember
    \/ \E i \in 1 .. Len(waiting_for_seal) : SealWaiter(i)
           /\ Remember
    \/ NetworkSend
           /\ Remember
    \/ TrackerChanged
           /\ Remember
    \/ Selects(7) /\ \E hint \in KnownGlobalTails : Release(hint)
           /\ Remember
    \/ Selects(8) /\ \E peer \in NodeIds, hint \in KnownGlobalTails, enqueued \in BOOLEAN :
                         Seal(peer, hint, enqueued)
           /\ Remember
    \/ Selects(9) /\ \E hint \in KnownGlobalTails, delivered \in BOOLEAN :
                         GetLogletInfo(hint, delivered)
           /\ Remember
    \/ Selects(10) /\ \E body \in GetRecordsBodies : GetRecords(body)
           /\ Remember
    \/ Selects(11) /\ \E body \in TrimBodies : Trim(body)
           /\ Remember
    \/ Selects(12) /\ \E peer \in NodeIds, body \in StoreBodies,
                         enqueued \in BOOLEAN : Store(peer, body, enqueued)
           /\ Remember
    \/ \E i \in 1 .. Len(trim_tasks), enqueued \in BOOLEAN :
           TrimTaskRuns(i, enqueued)
           /\ Remember
    \/ \E i \in 1 .. Len(trim_tasks), ok \in BOOLEAN : TrimTaskCompletes(i, ok)
           /\ Remember
    \/ \E i \in 1 .. Len(read_tasks), ok \in BOOLEAN : ReadTaskRuns(i, ok)
           /\ Remember

SpecCancel == Init /\ [][NextCancel]_vars

\* Peers that let requests pile up: a Seal and a Store wait in their inboxes
\* at the same time.
enqueue_together(k) ==
    /\ worker = "running"
    /\ sent < MaxRequests
    /\ inbox["store_rx"] + inbox["seal_rx"] < MaxQueuedTogether
    /\ inbox' = [ inbox EXCEPT ![k] = @ + 1 ]
    /\ sent' = sent + 1
    /\ UNCHANGED << loglet_state, tracker, locals, futures, worker, cancelled,
                    tasks, log_store_disabled, last_response, seal_dequeued,
                    panicked_store,
                    persist_sequencer_stores, overtaken_stores, log_records, persisted >>

NextQueuedTogether ==
    \/ \E k \in { "store_rx", "seal_rx" } : enqueue_together(k)
           /\ Remember
    \/ Shutdown
           /\ Remember
    \/ WorkerStep
    \/ LogStoreStep

\* The worker with Stores and Seals that wait together in its inboxes.
SpecQueuedTogether == Init /\ [][NextQueuedTogether]_vars

\* Peers that follow the releases offset by offset: the known_global_tail of
\* a message is any offset, or the tail once every offset is released.
KnownGlobalTailsByOffset == INVALID .. MaxOffset + 1

HintedStoreBodies ==
    [ first_offset : Offsets, len : 0 .. MaxLen, sequencer : NodeIds,
      ignore_seal : BOOLEAN, expired : BOOLEAN,
      known_global_tail : KnownGlobalTailsByOffset ]

HintedTrimBodies ==
    [ trim_point : Offsets, known_global_tail : KnownGlobalTailsByOffset ]

HintedGetRecordsBodies ==
    [ from_offset : Offsets, to_offset : Offsets,
      known_global_tail : KnownGlobalTailsByOffset ]

enqueue_hinted(k) ==
    /\ worker = "running"
    /\ sent < MaxHintedRequests
    /\ inbox["store_rx"] + inbox["release_rx"] + inbox["seal_rx"]
         + inbox["get_loglet_info_rx"] + inbox["get_records_rx"]
         + inbox["trim_rx"] < MaxQueued
    /\ inbox' = [ inbox EXCEPT ![k] = @ + 1 ]
    /\ sent' = sent + 1
    /\ UNCHANGED << loglet_state, tracker, locals, futures, worker, cancelled,
                    tasks, log_store_disabled, last_response, seal_dequeued,
                    panicked_store,
                    persist_sequencer_stores, overtaken_stores, log_records, persisted >>

NextHinted ==
    \/ \E k \in Kinds : enqueue_hinted(k)
           /\ Remember
    \/ \E i \in 1 .. Len(in_flight_stores), ok \in BOOLEAN :
           StoreTokenResolves(i, ok)
           /\ Remember
    \/ \E ok \in BOOLEAN : SealTokenResolves(ok)
           /\ Remember
    \/ Shutdown
           /\ Remember
    \/ \E i \in 1 .. Len(in_flight_stores) : StoreCompletion(i)
           /\ Remember
    \/ SealCompletion
           /\ Remember
    \/ \E i \in 1 .. Len(waiting_for_seal) : SealWaiter(i)
           /\ Remember
    \/ NetworkSend
           /\ Remember
    \/ TrackerChanged
           /\ Remember
    \/ Selects(7) /\ \E hint \in KnownGlobalTailsByOffset : Release(hint)
           /\ Remember
    \/ Selects(8) /\ \E peer \in NodeIds, hint \in KnownGlobalTailsByOffset,
                         enqueued \in BOOLEAN : Seal(peer, hint, enqueued)
           /\ Remember
    \/ Selects(9) /\ \E hint \in KnownGlobalTailsByOffset, delivered \in BOOLEAN :
                         GetLogletInfo(hint, delivered)
           /\ Remember
    \/ Selects(10) /\ \E body \in HintedGetRecordsBodies : GetRecords(body)
           /\ Remember
    \/ Selects(11) /\ \E body \in HintedTrimBodies : Trim(body)
           /\ Remember
    \/ Selects(12) /\ \E peer \in NodeIds, body \in HintedStoreBodies,
                         enqueued \in BOOLEAN : Store(peer, body, enqueued)
           /\ Remember
    \/ \E i \in 1 .. Len(trim_tasks), enqueued \in BOOLEAN :
           TrimTaskRuns(i, enqueued)
           /\ Remember
    \/ \E i \in 1 .. Len(trim_tasks), ok \in BOOLEAN : TrimTaskCompletes(i, ok)
           /\ Remember
    \/ \E i \in 1 .. Len(read_tasks), ok \in BOOLEAN : ReadTaskRuns(i, ok)
           /\ Remember

\* The worker with peers whose known_global_tail is any offset.
SpecHinted == Init /\ [][NextHinted]_vars

\* The Stores of a peer that follows the protocol on an open loglet: in
\* time, no repair store, no known_global_tail to pass in.
DeepStoreBodies ==
    { body \in StoreBodies :
          ~body.expired /\ ~body.ignore_seal /\ body.known_global_tail = INVALID }

\* A peer sends a Store, a Seal or a Trim: one of MaxDeepRequests, and only
\* when no other one waits.
enqueue_deep(k) ==
    /\ worker = "running"
    /\ sent < MaxDeepRequests
    /\ inbox["store_rx"] + inbox["seal_rx"] + inbox["trim_rx"] < MaxQueued
    /\ inbox' = [ inbox EXCEPT ![k] = @ + 1 ]
    /\ sent' = sent + 1
    /\ UNCHANGED << loglet_state, tracker, locals, futures, worker, cancelled,
                    tasks, log_store_disabled, last_response, seal_dequeued,
                    panicked_store,
                    persist_sequencer_stores, overtaken_stores, log_records, persisted >>

\* Stores and Trims only, in longer runs: a store, a trim and another trim,
\* with the trim tasks at any pace.
NextTrims ==
    \/ \E k \in { "store_rx", "trim_rx" } : enqueue_deep(k) /\ Remember
    \/ \E i \in 1 .. Len(in_flight_stores), ok \in BOOLEAN :
           StoreTokenResolves(i, ok) /\ Remember
    \/ Shutdown /\ Remember
    \/ \E i \in 1 .. Len(in_flight_stores) : StoreCompletion(i) /\ Remember
    \/ NetworkSend /\ Remember
    \/ TrackerChanged /\ Remember
    \/ Selects(11) /\ \E body \in TrimBodies : Trim(body) /\ Remember
    \/ Selects(12) /\ \E peer \in NodeIds, body \in DeepStoreBodies,
                         enqueued \in BOOLEAN : Store(peer, body, enqueued) /\ Remember
    \/ \E i \in 1 .. Len(trim_tasks), enqueued \in BOOLEAN :
           TrimTaskRuns(i, enqueued) /\ Remember
    \/ \E i \in 1 .. Len(trim_tasks), ok \in BOOLEAN : TrimTaskCompletes(i, ok) /\ Remember

\* The worker with peers that store and trim.
SpecTrims == Init /\ [][NextTrims]_vars

\* Stores only, in longer runs: three of them in a row, the log store
\* resolving their tokens in the order it was handed them.
NextPipelined ==
    \/ enqueue_deep("store_rx") /\ Remember
    \/ \E i \in 1 .. Len(in_flight_stores), ok \in BOOLEAN :
           StoreTokenResolvesInOrder(i, ok) /\ Remember
    \/ Shutdown /\ Remember
    \/ StoreCompletionInOrder /\ Remember
    \/ NetworkSend /\ Remember
    \/ Selects(12) /\ \E peer \in NodeIds, body \in DeepStoreBodies,
                         enqueued \in BOOLEAN : Store(peer, body, enqueued) /\ Remember

\* The worker with peers that only store.
SpecPipelined == Init /\ [][NextPipelined]_vars

\* Stores and Seals only, in longer runs: a store and two seals, or two
\* stores and a seal, the log store resolving the tokens in the order it was
\* handed them.
NextSeals ==
    \/ \E k \in { "store_rx", "seal_rx" } : enqueue_deep(k) /\ Remember
    \/ \E i \in 1 .. Len(in_flight_stores), ok \in BOOLEAN :
           StoreTokenResolvesInOrder(i, ok) /\ Remember
    \/ \E ok \in BOOLEAN : SealTokenResolvesInOrder(ok) /\ Remember
    \/ Shutdown /\ Remember
    \/ StoreCompletionInOrder /\ Remember
    \/ SealCompletion /\ Remember
    \/ \E i \in 1 .. Len(waiting_for_seal) : SealWaiter(i) /\ Remember
    \/ NetworkSend /\ Remember
    \/ TrackerChanged /\ Remember
    \/ Selects(8) /\ \E peer \in NodeIds, hint \in KnownGlobalTails,
                        enqueued \in BOOLEAN : Seal(peer, hint, enqueued) /\ Remember
    \/ Selects(12) /\ \E peer \in NodeIds, body \in DeepStoreBodies,
                         enqueued \in BOOLEAN : Store(peer, body, enqueued) /\ Remember

\* The worker with peers that store and seal.
SpecSeals == Init /\ [][NextSeals]_vars

\* ------------------------------------------------------------- properties

\* C1: when the worker answers a Store with status Ok, the local_tail of the
\* response is at least first_offset + number of payloads of that Store,
\* whichever of the pipelined stores completes first.
C1_OkResponseCoversTheStore ==
        \A i \in 1 .. Len(was.in_flight_stores) :
            ( /\ in_flight_stores = RemoveAt(was.in_flight_stores, i)
              /\ was.in_flight_stores[i].token = "ok"
              /\ worker = "running" )
            => /\ last_response.kind = "Stored"
               /\ last_response.status = "Ok"
               /\ last_response.local_tail >=
                      was.in_flight_stores[i].req.first_offset
                          + was.in_flight_stores[i].req.len

\* An Ok response went out while another store is still with the log store.
C1_Witness ==
    /\ last_response.kind = "Stored"
    /\ last_response.status = "Ok"
    /\ \E i \in 1 .. Len(in_flight_stores) :
           in_flight_stores[i].req.first_offset < last_response.local_tail

\* C2: a Stored response with status Ok goes out only in the step that takes
\* a store whose token resolved Ok out of in_flight_stores, and the local
\* tail moves only in such a step, to no further than that store's end:
\* never when a store is enqueued.
C2_OkOnlyAfterTheTokenResolved ==
        ( \/ local_tail # was.local_tail
          \/ /\ last_response # was.last_response
             /\ last_response.kind = "Stored"
             /\ last_response.status = "Ok" )
        => \E i \in 1 .. Len(was.in_flight_stores) :
               /\ was.in_flight_stores[i].token = "ok"
               /\ in_flight_stores = RemoveAt(was.in_flight_stores, i)
               /\ local_tail <= Max(was.local_tail,
                                     was.in_flight_stores[i].future_last_committed)

\* A store is enqueued and its token has not resolved: the tail has not moved.
C2_Witness ==
    /\ Len(in_flight_stores) = 1
    /\ in_flight_stores[1].token = "pending"
    /\ staging_local_tail > local_tail
    /\ local_tail = OLDEST

\* C3: the local tail offset never moves backward.
C3_LocalTailNeverRegresses ==
    local_tail >= was.local_tail

\* A store that ends below the local tail has completed, with status Ok.
C3_Witness ==
    /\ last_response.kind = "Stored"
    /\ last_response.status = "Ok"
    /\ in_flight_stores = << >>
    /\ staging_local_tail < local_tail

\* C4: once the loglet is sealed it stays sealed, whatever the worker does
\* afterwards.
C4_SealedStaysSealed ==
    was.sealed => sealed

\* The loglet is sealed and the worker has turned a Store away as Sealed.
C4_Witness ==
    /\ sealed
    /\ last_response.kind = "Stored"
    /\ last_response.status = "Sealed"

\* C5: the in-memory trim point never decreases, also when trim tasks run
\* side by side.
C5_TrimPointNeverDecreases ==
    trim_point >= was.trim_point

\* While one trim waits for the log store, another trim that asks for no
\* more than the trim point has been answered Ok.
C5_Witness ==
    /\ \E i \in 1 .. Len(trim_tasks) : trim_tasks[i].pc = "waiting"
    /\ last_response.kind = "Trimmed"
    /\ last_response.status = "Ok"
    /\ trim_point > INVALID

\* C6: the trim point is below the local tail in every state: a trim at or
\* past the tail is clipped to the offset before it, and on an empty loglet
\* the trim point stays INVALID.
C6_TrimPointBelowLocalTail == trim_point < local_tail

\* A trim that asked for the local tail or more has been clipped to the
\* offset before the tail and waits for the log store.
C6_Witness ==
    /\ trim_point = prev(local_tail)
    /\ trim_point >= OLDEST
    /\ \E i \in 1 .. Len(trim_tasks) :
           /\ trim_tasks[i].pc = "waiting"
           /\ trim_tasks[i].asked >= local_tail

\* C7, as stated: once a Seal has been dequeued, every Store dequeued later,
\* from any peer and with any flags (IgnoreSeal included), is answered
\* Sealing or Sealed.
C7_AsStated ==
        ( was.seal_dequeued /\ (StoreRejected \/ StoreEnqueued \/ StorePanicked) )
        => /\ StoreRejected
           /\ rejected_store.msg.status \in { "Sealing", "Sealed" }

\* C7: once a Seal has been dequeued, every Store dequeued later that does
\* not carry IgnoreSeal, from any peer, is answered Sealing or Sealed, and so
\* is a Store with IgnoreSeal dequeued while the seal is in progress.
C7_StoreAfterSealIsTurnedAway ==
        was.seal_dequeued
        => /\ StoreRejected
                /\ (~rejected_store.req.ignore_seal \/ was.sealing_in_progress)
              => rejected_store.msg.status \in { "Sealing", "Sealed" }
           /\ StoreEnqueued
              => enqueued_store.req.ignore_seal /\ ~was.sealing_in_progress
           /\ StorePanicked
              => /\ ~was.sealing_in_progress
                 /\ unwrap(panicked_store).ignore_seal

\* A Store that carries IgnoreSeal is turned away as Sealing after a Seal.
C7_Witness ==
    /\ seal_dequeued
    /\ in_flight_network_sends # << >>
    /\ Head(in_flight_network_sends).req.ignore_seal
    /\ Head(in_flight_network_sends).msg.status = "Sealing"

C10_AsStated ==
        /\ StoreRejected
             /\ was.sequencer # None
             /\ unwrap(was.sequencer) # rejected_store.req.sequencer
           => rejected_store.msg.status = "SequencerMismatch"
        /\ StoreEnqueued
           => was.sequencer = None \/ unwrap(was.sequencer) = enqueued_store.req.sequencer

\* C10: a Store whose sequencer differs from the sequencer recorded in the
\* loglet state and that is not turned away as Sealed, Sealing, Dropped or
\* Malformed is answered SequencerMismatch, whichever peer sent it.
C10_SequencerMismatch ==
        /\ StoreRejected
             /\ was.sequencer # None
             /\ unwrap(was.sequencer) # rejected_store.req.sequencer
             /\ ~(~rejected_store.req.ignore_seal /\ was.sealed)
             /\ ~was.sealing_in_progress
             /\ ~rejected_store.req.expired
             /\ last_offset(rejected_store.req) # None
             /\ rejected_store.req.first_offset # INVALID
           => rejected_store.msg.status = "SequencerMismatch"
        /\ StoreEnqueued
           => was.sequencer = None \/ unwrap(was.sequencer) = enqueued_store.req.sequencer
        /\ StorePanicked
           => \/ was.sequencer = None
              \/ unwrap(was.sequencer) = unwrap(panicked_store).sequencer

\* A Store that names another sequencer than the recorded one, sent by the
\* node it names, waits to be answered SequencerMismatch.
C10_Witness ==
    /\ in_flight_network_sends # << >>
    /\ sequencer # None
    /\ Head(in_flight_network_sends).req.sequencer # unwrap(sequencer)
    /\ Head(in_flight_network_sends).req.peer =
           Head(in_flight_network_sends).req.sequencer
    /\ Head(in_flight_network_sends).msg.status = "SequencerMismatch"

\* C11, as stated: a Store with first_offset < next_ok_offset =
\* max(staging_local_tail, known_global_tail) is enqueued to the log store
\* only if its peer is the sequencer it names; from any other peer it is
\* answered SequencerMismatch.
C11_AsStated ==
        /\ StoreEnqueued
             /\ enqueued_store.req.first_offset <
                    Max(was.staging_local_tail, known_global_tail)
           => enqueued_store.req.peer = enqueued_store.req.sequencer
        /\ StoreRejected
             /\ rejected_store.req.first_offset <
                    Max(was.staging_local_tail, known_global_tail)
             /\ rejected_store.req.peer # rejected_store.req.sequencer
           => rejected_store.msg.status = "SequencerMismatch"

\* C11: a Store with first_offset < next_ok_offset =
\* max(staging_local_tail, known_global_tail) is enqueued to the log store
\* only if its peer is the sequencer it names; from any other peer it is
\* answered SequencerMismatch unless it is turned away before as Sealed,
\* Sealing, Dropped or Malformed, and it never reaches the repair-store
\* todo!().
C11_BelowNextOkOnlyFromTheSequencer ==
        /\ StoreEnqueued
             /\ enqueued_store.req.first_offset <
                    Max(was.staging_local_tail, known_global_tail)
           => enqueued_store.req.peer = enqueued_store.req.sequencer
        /\ StoreRejected
             /\ rejected_store.req.first_offset <
                    Max(was.staging_local_tail, known_global_tail)
             /\ rejected_store.req.peer # rejected_store.req.sequencer
             /\ ~(~rejected_store.req.ignore_seal /\ was.sealed)
             /\ ~was.sealing_in_progress
             /\ ~rejected_store.req.expired
             /\ last_offset(rejected_store.req) # None
             /\ rejected_store.req.first_offset # INVALID
           => rejected_store.msg.status = "SequencerMismatch"
        /\ StorePanicked
           => \/ unwrap(panicked_store).first_offset >=
                    Max(was.staging_local_tail, known_global_tail)
              \/ unwrap(panicked_store).peer = unwrap(panicked_store).sequencer

\* A Store below next_ok_offset that names the recorded sequencer but was
\* sent by another node waits to be answered SequencerMismatch.
C11_Witness ==
    /\ in_flight_network_sends # << >>
    /\ sequencer # None
    /\ Head(in_flight_network_sends).req.sequencer = unwrap(sequencer)
    /\ Head(in_flight_network_sends).req.peer # unwrap(sequencer)
    /\ Head(in_flight_network_sends).req.first_offset # INVALID
    /\ Head(in_flight_network_sends).req.first_offset <
           Max(staging_local_tail, known_global_tail)
    /\ Head(in_flight_network_sends).msg.status = "SequencerMismatch"

\* C12: a Trim whose trim_point is at or above max(known_global_tail,
\* local_tail.offset), or below OLDEST, is answered Malformed by its task,
\* which ends there: the in-memory trim point stays as it is, the log store
\* is not asked and no trim token is waited for.
C12_MalformedTrimTouchesNothing ==
        \A i \in 1 .. Len(was.trim_tasks) :
            /\ TrimTaskRan(i)
            /\ \/ was.trim_tasks[i].trim_point < OLDEST
               \/ was.trim_tasks[i].trim_point >=
                      Max(was.trim_tasks[i].known_global_tail, was.local_tail)
            => /\ last_response = Trimmed(was.local_tail, "Malformed")
               /\ trim_point = was.trim_point
               /\ log_store_disabled = was.log_store_disabled
               /\ trim_tasks = RemoveAt(was.trim_tasks, i)

\* A Trim at the high watermark of a loglet that holds records was answered
\* Malformed: the trim point is where it was and the log store works.
C12_Witness ==
    /\ last_response = Trimmed(local_tail, "Malformed")
    /\ local_tail > OLDEST
    /\ trim_point = INVALID
    /\ trim_tasks = << >>
    /\ ~log_store_disabled

\* C16: a Seal dequeued when the loglet is sealed already asks no seal of
\* the log store (no seal token, the log store as it was), leaves
\* sealing_in_progress false, and its waiter is ready at once; the waiter
\* answers Sealed/Ok with the sealed tail of the moment.
C16_SealOnSealedLoglet ==
        /\ SealDequeued /\ was.sealed
           => /\ sealing_in_progress = FALSE
              /\ in_flight_seal = None
              /\ was.in_flight_seal = None
              /\ log_store_disabled = was.log_store_disabled
              /\ SealWaiterReady
        /\ SealAnswered
           => /\ was.sealed /\ sealed
              /\ last_response = Sealed(local_tail, "Ok")

\* A Seal has just been dequeued on a loglet that was sealed already: it
\* joined the waiters, and no seal was asked of the log store.
C16_Witness ==
    /\ was.sealed
    /\ SealDequeued
    /\ Len(waiting_for_seal) = Len(was.waiting_for_seal) + 1
    /\ ~sealing_in_progress
    /\ in_flight_seal = None
    /\ worker = "running"

\* C18, as stated: no request ends the worker loop, whatever its kind and
\* flags and whatever the log store answers; a worker that no longer runs
\* was cancelled.
C18_AsStated == worker # "running" => cancelled

\* The worker loop ended in the todo!() of a Store that carries IgnoreSeal;
\* nobody cancelled it.
C18_Witness ==
    /\ worker = "panicked"
    /\ ~cancelled
    /\ panicked_store # None
    /\ unwrap(panicked_store).ignore_seal

\* C19, as stated: a Store the log store refuses at enqueue is answered
\* Disabled and leaves staging_local_tail, local_tail and the recorded
\* sequencer as they were.
C19_AsStated ==
        StoreRejected /\ rejected_store.msg.status = "Disabled"
        => /\ staging_local_tail = was.staging_local_tail
           /\ local_tail = was.local_tail
           /\ sequencer = was.sequencer

\* No store was ever handed to the log store, and yet a sequencer is
\* recorded: the one of a Store answered Disabled.
C19_Witness ==
    /\ staging_local_tail = OLDEST
    /\ local_tail = OLDEST
    /\ sequencer # None
    /\ last_response = Stored(OLDEST, "Disabled")

C14_SealWaitersReleasedTogether ==
        /\ inbox["seal_rx"] < was.inbox["seal_rx"] /\ worker = "running"
           => SealDequeued
        /\ ~was.sealed /\ sealed
           => /\ waiting_for_seal = was.waiting_for_seal
              /\ was.waiting_for_seal # << >> => SealWaiterReady
        /\ SealAnswered
           => /\ was.sealed
              /\ last_response = Sealed(was.local_tail, "Ok")
        /\ was.sealed /\ was.waiting_for_seal # << >>
           => local_tail = was.local_tail

\* Two Seals wait on a loglet that holds records and has just been sealed.
C14_Witness ==
    /\ Len(waiting_for_seal) = 2
    /\ sealed
    /\ local_tail > OLDEST
    /\ worker = "running"

C17_AsStated ==
        /\ was.worker = "running" /\ worker = "stopped"
        /\ was.in_flight_stores = << >>
        /\ was.trim_tasks = << >>
        => /\ get_or_load.local_tail = local_tail
           /\ get_or_load.trim_point = trim_point

\* C17: when the worker is shut down with every Store and every Trim it
\* received answered and the log store not in fail-safe mode, the
\* LogletState a restart reloads from the log store has the local tail and
\* the trim point the worker had in memory.
C17_ReloadedStateIsTheOneInMemory ==
        /\ was.worker = "running" /\ worker = "stopped"
        /\ was.in_flight_stores = << >>
        /\ was.trim_tasks = << >>
        /\ ~was.log_store_disabled
        => /\ get_or_load.local_tail = local_tail
           /\ get_or_load.trim_point = trim_point

\* A worker that stored records and trimmed some of them was shut down, and
\* the log store holds the tail and the trim point the worker had.
C17_Witness ==
    /\ worker = "stopped"
    /\ ~log_store_disabled
    /\ trim_tasks = << >>
    /\ local_tail > OLDEST
    /\ trim_point > INVALID
    /\ get_or_load.local_tail = local_tail
    /\ get_or_load.trim_point = trim_point

\* C21: once the cancellation is signalled the worker does nothing but exit:
\* in every step from a state where it is signalled, the local tail and the
\* sealed flag stay, and either the worker exits or it is left as it was (no
\* request dequeued, no completion of a store, of the seal, of a seal waiter
\* or of a network send handled, no store or seal handed to the log store).
C21_CancelledWorkerOnlyExits ==
        was.cancelled
        => /\ local_tail = was.local_tail
           /\ sealed = was.sealed
           /\ \/ was.worker = "running" /\ worker = "stopped"
              \/ /\ worker = was.worker
                 /\ \A k \in Kinds : inbox[k] >= was.inbox[k]
                 /\ Len(in_flight_stores) = Len(was.in_flight_stores)
                 /\ (in_flight_seal = None) = (was.in_flight_seal = None)
                 /\ waiting_for_seal = was.waiting_for_seal
                 /\ in_flight_network_sends = was.in_flight_network_sends
                 /\ staging_local_tail = was.staging_local_tail

\* The worker has just returned on the cancellation while a store whose
\* token resolved waited to be completed.
C21_Witness ==
    /\ was.cancelled
    /\ was.worker = "running"
    /\ WasReady(2)
    /\ worker = "stopped"

\* C22, as stated: local tail, sealed flag, trim point and sequencer change
\* only in a step of the worker task.
C22_AsStated ==
    << local_tail, sealed, trim_point, sequencer >> #
        << was.local_tail, was.sealed, was.trim_point, was.sequencer >>
    => WorkerPolled

\* C22: local tail, sealed flag and sequencer change only in a step of the
\* worker task; the trim point changes only in a step of a disposable trim
\* task, which is no step of the worker task and changes none of the others.
C22_WorkerWritesAllButTheTrimPoint ==
        /\ ( \/ local_tail # was.local_tail
             \/ sealed # was.sealed
             \/ sequencer # was.sequencer ) => WorkerPolled
        /\ trim_point # was.trim_point
               => /\ TrimTaskAdvanced
                  /\ ~WorkerPolled
                  /\ << local_tail, sealed, sequencer >> =
                         << was.local_tail, was.sealed, was.sequencer >>

\* A trim task has just moved the trim point of a loglet that holds the
\* records of a sequencer.
C22_Witness ==
    /\ trim_point # was.trim_point
    /\ trim_point > INVALID
    /\ local_tail > OLDEST
    /\ sequencer # None

\* C23, as stated: a Trim that advanced the in-memory trim point is answered,
\* Ok or Disabled: no trim task that advanced the trim point ends without a
\* Trimmed response.
C23_AsStated ==
    \A i \in 1 .. Len(trim_tasks) : trim_tasks[i].pc # "failed"

\* The log store refused a trim at enqueue: the trim point is advanced in
\* memory and the task has ended without an answer.
C23_Witness ==
    /\ log_store_disabled
    /\ trim_point > INVALID
    /\ \E i \in 1 .. Len(trim_tasks) :
           /\ trim_tasks[i].pc = "failed"
           /\ trim_tasks[i].asked >= trim_point

\* C24: a Trim that passes the check against the high watermark and whose
\* trim point, clipped to local_tail - 1, is no higher than the in-memory
\* trim point is answered Trimmed/Ok with the local tail by its task, which
\* ends there: the log store is not asked, no trim token is waited for, and
\* the trim point (in memory and durable) and the local tail stay.
C24_TrimThatDoesNotAdvance ==
        \A i \in 1 .. Len(was.trim_tasks) :
            /\ TrimTaskRan(i)
            /\ was.trim_tasks[i].trim_point >= OLDEST
            /\ was.trim_tasks[i].trim_point <
                   Max(was.trim_tasks[i].known_global_tail, was.local_tail)
            /\ Min(was.trim_tasks[i].trim_point, prev(was.local_tail)) <= was.trim_point
            => /\ last_response = Trimmed(was.local_tail, "Ok")
               /\ trim_point = was.trim_point
               /\ local_tail = was.local_tail
               /\ log_store_disabled = was.log_store_disabled
               /\ persisted_trim_point = was.persisted_trim_point
               /\ trim_tasks = RemoveAt(was.trim_tasks, i)

\* A Trim below the known global tail was answered Ok on an empty loglet:
\* nothing was trimmed.
C24_Witness ==
    /\ last_response = Trimmed(OLDEST, "Ok")
    /\ local_tail = OLDEST
    /\ trim_point = INVALID
    /\ persisted_trim_point = INVALID
    /\ global_tail = MaxOffset + 1
    /\ trim_tasks = << >>
    /\ ~log_store_disabled

C26_ReadAcrossTrimmedRegion ==
    ReadServed
    => LET req == last_response.in_response_to
           records == last_response.records
       IN  /\ req.from_offset <= trim_point
                  => /\ records # << >>
                     /\ records[1] =
                            Entry(req.from_offset, "TrimGap",
                                  Min(trim_point,
                                      Min(req.to_offset, prev(local_tail))))
                     /\ \A j \in 2 .. Len(records) :
                            records[j].kind # "TrimGap"
           /\ \A j \in 1 .. Len(records) :
                  records[j].kind = "Data" => records[j].offset > trim_point

\* A read from below the trim point to below it found records on both
\* sides of its range: it answered with the TrimGap alone, cut at to_offset.
C26_Witness ==
    /\ ReadServed
    /\ last_response.in_response_to.to_offset < trim_point
    /\ Len(last_response.records) = 1
    /\ last_response.records[1].kind = "TrimGap"
    /\ \E o \in 1 .. MaxReadOffset : o <= trim_point /\ is_data(log_records[o])

\* C27: with a byte budget B, the Data entries of a read are the first of
\* the records that pass the filter in range, in order with none skipped;
\* the first such record is returned even when it alone exceeds B; every
\* later one is returned only if the cumulative size up to it stays within
\* B; and when the budget leaves a passing record out (the next one would
\* not fit), next_offset is one past the last emitted entry.
C27_SoftBudget ==
    ReadServed /\ last_response.in_response_to.total_limit_in_bytes # None
    => LET req == last_response.in_response_to
           B == unwrap(req.total_limit_in_bytes)
           records == last_response.records
           data == data_offsets(records)
       IN  /\ data \subseteq passing(req)
           /\ \A o \in data, p \in passing(req) : p < o => p \in data
           /\ passing(req) # { } => data # { }
           /\ \A o \in data :
                  (\E p \in data : p < o)
                      => size_of({ p \in data : p <= o }) <= B
           /\ data # passing(req)
                  => /\ last_response.next_offset =
                            next(records[Len(records)].to)
                     /\ \E p \in passing(req) \ data :
                            /\ \A q \in passing(req) \ data : p <= q
                            /\ size_of(data \cup { p }) > B

\* A read with a budget of one byte returned a first record of two bytes,
\* after a filtered gap, and left the next passing record out.
C27_Witness ==
    /\ ReadServed
    /\ last_response.in_response_to.total_limit_in_bytes = Some(1)
    /\ Len(last_response.records) = 2
    /\ last_response.records[1].kind = "FilteredGap"
    /\ last_response.records[2].kind = "Data"
    /\ log_records[last_response.records[2].offset] = "large"
    /\ data_offsets(last_response.records)
           # passing(last_response.in_response_to)
    /\ last_response.next_offset = next(last_response.records[2].offset)

\* C28: no entry of a read lies at or beyond the local tail, or outside the
\* range asked for: the read goes up to min(to_offset, local_tail - 1); and
\* when the range is exhausted (no passing record was left out for the
\* budget) next_offset is one past that bound.
C28_ReadStopsBeforeLocalTail ==
    ReadServed
    => LET req == last_response.in_response_to
           records == last_response.records
       IN  /\ \A j \in 1 .. Len(records) :
                  /\ records[j].offset >= req.from_offset
                  /\ records[j].offset <= records[j].to
                  /\ records[j].to <= req.to_offset
                  /\ records[j].to < local_tail
           /\ data_offsets(records) = passing(req)
                  => last_response.next_offset =
                         next(Min(req.to_offset, prev(local_tail)))

\* A read whose range goes past the local tail, over a record written
\* there, returned the records below the tail and next_offset = local tail.
C28_Witness ==
    /\ ReadServed
    /\ last_response.in_response_to.to_offset >= local_tail
    /\ is_data(log_records[local_tail])
    /\ data_offsets(last_response.records) # { }
    /\ last_response.next_offset = local_tail

\* C29: a Release sends no response (none is sent, none is prepared), sets
\* the global-tail tracker and the cached known_global_tail to the larger of
\* their value and the message's known_global_tail, and leaves local_tail,
\* staging_local_tail, trim_point, sealed and sequencer alone; the tracker
\* and the cached known_global_tail never decrease, in any step.
C29_ReleaseFoldsTheGlobalTail ==
        /\ ReleaseDequeued
               => /\ \E hint \in KnownGlobalTails :
                         /\ global_tail = Max(was.global_tail, hint)
                         /\ known_global_tail = Max(was.known_global_tail, hint)
                  /\ last_response = was.last_response
                  /\ in_flight_network_sends = was.in_flight_network_sends
                  /\ << local_tail, staging_local_tail, trim_point, sealed,
                        sequencer >> =
                         << was.local_tail, was.staging_local_tail, was.trim_point,
                            was.sealed, was.sequencer >>
        /\ global_tail >= was.global_tail
        /\ known_global_tail >= was.known_global_tail

\* After a store, a request that carried a higher known_global_tail was taken
\* in without an answer: the tracker and the cache hold the released tail,
\* the loglet is as the store left it.
C29_Witness ==
    /\ last_response = Stored(next(OLDEST), "Ok")
    /\ local_tail = next(OLDEST)
    /\ sent = 2
    /\ inbox = [ k \in Kinds |-> 0 ]
    /\ global_tail = MaxOffset + 1
    /\ known_global_tail = MaxOffset + 1
    /\ tracker_changed
    /\ trim_tasks = << >>
    /\ read_tasks = << >>
    /\ waiting_for_seal = << >>
    /\ worker = "running"

\* C30: GetLogletInfo is answered in the step that dequeues it (nothing is
\* queued for later), with the local tail, the trim point and the sealed
\* flag the loglet state has in that step, unless the peer's channel does
\* not take the response; and it leaves local_tail, trim_point, sealed,
\* sequencer and staging_local_tail alone.
C30_LogletInfoIsTheCurrentState ==
        GetLogletInfoDequeued
        => /\ \/ last_response = LogletInfo(was.local_tail, was.trim_point, was.sealed)
              \/ last_response = was.last_response
           /\ in_flight_network_sends = was.in_flight_network_sends
           /\ << local_tail, trim_point, sealed, sequencer, staging_local_tail >> =
                  << was.local_tail, was.trim_point, was.sealed, was.sequencer,
                     was.staging_local_tail >>

\* After a store has completed, GetLogletInfo has just been answered with
\* the tail the store left.
C30_Witness ==
    /\ GetLogletInfoDequeued
    /\ last_response.kind = "LogletInfo"
    /\ last_response.local_tail > OLDEST
    /\ last_response.local_tail = local_tail

\* C31, as stated: while a Seal and a Store wait in their inboxes the worker
\* does not dequeue the Store; and a Store that waited in store_rx while a
\* Seal was dequeued is answered Sealing or Sealed, whatever its flags.
C31_AsStated ==
        /\ was.inbox["seal_rx"] > 0 /\ was.inbox["store_rx"] > 0
           => inbox["store_rx"] >= was.inbox["store_rx"] \/ worker = "stopped"
        /\ was.overtaken_stores > 0
             /\ (StoreRejected \/ StoreEnqueued \/ StorePanicked)
           => /\ StoreRejected
              /\ rejected_store.msg.status \in { "Sealing", "Sealed" }

\* C31: while a Seal and a Store wait in their inboxes the worker does not
\* dequeue the Store, so the Seal is dequeued first; a Store that waited in
\* store_rx while a Seal was dequeued is never enqueued to the log store,
\* and it is answered Sealing or Sealed if it does not carry IgnoreSeal or
\* if it is dequeued while the seal is still in progress.
C31_SealWinsOverQueuedStore ==
        /\ was.inbox["seal_rx"] > 0 /\ was.inbox["store_rx"] > 0
           => inbox["store_rx"] >= was.inbox["store_rx"] \/ worker = "stopped"
        /\ was.overtaken_stores > 0
           => /\ ~StoreEnqueued
              /\ StoreRejected
                   /\ (~rejected_store.req.ignore_seal \/ was.sealing_in_progress)
                 => rejected_store.msg.status \in { "Sealing", "Sealed" }
              /\ StoreRejected => rejected_store.req.overtaken
              /\ StorePanicked
                 => /\ ~was.sealing_in_progress
                    /\ unwrap(panicked_store).ignore_seal

\* A Store that waited in its inbox together with a Seal was dequeued after
\* it and turned away as Sealing; the seal is still with the log store.
C31_Witness ==
    /\ in_flight_network_sends # << >>
    /\ Head(in_flight_network_sends).req.overtaken
    /\ Head(in_flight_network_sends).msg.status = "Sealing"
    /\ in_flight_seal = Some("pending")

C34_AsStated ==
        /\ staging_local_tail >= was.staging_local_tail
        /\ staging_local_tail >= local_tail

\* The sequencer stored again below the local tail: the store is with the
\* log store and staging_local_tail is that store's end, below the tail.
C34_Witness ==
    /\ staging_local_tail < local_tail
    /\ Len(in_flight_stores) = 1
    /\ in_flight_stores[1].token = "pending"
    /\ in_flight_stores[1].future_last_committed = staging_local_tail
    /\ in_flight_stores[1].req.peer = unwrap(sequencer)

\* C35: the in-memory trim point is at or above the trim point the log
\* store has made durable, in every state, and at or above every trim point
\* handed to the log store and not yet durable: the in-memory update comes
\* before the enqueue, also with several trim tasks under way.
C35_TrimPointNeverUnderReported ==
    /\ persisted_trim_point <= trim_point
    /\ \A i \in 1 .. Len(trim_tasks) :
           trim_tasks[i].pc = "waiting" => trim_tasks[i].trim_point <= trim_point

\* Of two trims under way the log store has made the lower one durable; the
\* in-memory trim point is that of the higher one, which still waits.
C35_Witness ==
    /\ persisted_trim_point > INVALID
    /\ persisted_trim_point < trim_point
    /\ \E i \in 1 .. Len(trim_tasks) :
           /\ trim_tasks[i].pc = "waiting"
           /\ trim_tasks[i].trim_point = trim_point

\* C36: the loglet state becomes sealed only in a step that finds the token
\* of the in-flight-seal slot resolved Ok, and that step clears
\* sealing_in_progress and empties the slot; the slot holds the token of the
\* last seal the log store took, so the same goes when a second Seal has
\* replaced the token.
C36_SealedOnlyOnConfirmedSeal ==
        /\ ~was.sealed /\ sealed
           => /\ was.in_flight_seal = Some("ok")
              /\ sealing_in_progress = FALSE
              /\ in_flight_seal = None
        /\ SealCompleted => ~was.sealed /\ sealed /\ was.in_flight_seal = Some("ok")
        /\ SealDequeued /\ ~was.sealed /\ ~log_store_disabled
           => in_flight_seal = Some("pending") /\ sealing_in_progress

\* Two Seals were dequeued before the log store confirmed, the second one
\* replacing the token of the first; the seal has completed and both wait
\* to be answered.
C36_Witness ==
    /\ sealed
    /\ ~sealing_in_progress
    /\ in_flight_seal = None
    /\ Len(waiting_for_seal) = 2
    /\ ~log_store_disabled
    /\ worker = "running"

\* C37: with a log store that completes the operations of the loglet in
\* enqueue order, the local tail does not move once the loglet state is
\* sealed (no store is in flight when the seal completes), and every Sealed
\* response, sent with status Ok on a sealed loglet, carries that tail.
C37_SealFreezesTheTail ==
        /\ was.sealed => local_tail = was.local_tail /\ sealed
        /\ sealed /\ worker = "running" => in_flight_stores = << >>
        /\ SealAnswered
           => /\ was.sealed
              /\ last_response = Sealed(was.local_tail, "Ok")
        /\ was.sealed /\ last_response.kind = "Sealed"
           => last_response.local_tail = local_tail

\* Stores were made durable, then the seal; the Seal was answered with the
\* tail they left, and a Store that came later was turned away as Sealed.
C37_Witness ==
    /\ sealed
    /\ local_tail > OLDEST
    /\ last_response = Sealed(local_tail, "Ok")
    /\ in_flight_network_sends # << >>
    /\ Head(in_flight_network_sends).msg = Stored(local_tail, "Sealed")

\* C38: a Store turned away as Sealed, Sealing, Dropped, Malformed,
\* SequencerMismatch or OutOfBounds asks nothing of the log store (no store
\* joins in_flight_stores, no sequencer is handed over, the log store stays
\* as it was) and leaves staging_local_tail, local_tail, trim_point, sealed
\* and the recorded sequencer as they were; its response is built with the
\* local tail of that moment and is sent as it was built.
C38_RejectedStoreTouchesNothing ==
        /\ StoreRejected
             /\ rejected_store.msg.status \in
                    { "Sealed", "Sealing", "Dropped", "Malformed",
                      "SequencerMismatch", "OutOfBounds" }
           => /\ << staging_local_tail, local_tail, trim_point, sealed,
                    sequencer >> =
                     << was.staging_local_tail, was.local_tail, was.trim_point,
                        was.sealed, was.sequencer >>
              /\ in_flight_stores = was.in_flight_stores
              /\ persist_sequencer_stores = was.persist_sequencer_stores
              /\ log_store_disabled = was.log_store_disabled
              /\ << persisted_local_tail, persisted_trim_point >> =
                     << was.persisted_local_tail, was.persisted_trim_point >>
              /\ rejected_store.msg = Stored(was.local_tail, rejected_store.msg.status)
        /\ StoreRejected
           => rejected_store.msg.status \in
                  { "Sealed", "Sealing", "Dropped", "Malformed",
                    "SequencerMismatch", "OutOfBounds", "Disabled" }
        /\ RejectionSent
           => last_response = Head(was.in_flight_network_sends).msg

\* A Store was turned away as SequencerMismatch while an earlier store was
\* with the log store; that store has completed since, and the response
\* waits to be sent with the local tail of the moment of rejection.
C38_Witness ==
    /\ in_flight_network_sends # << >>
    /\ Head(in_flight_network_sends).msg.status = "SequencerMismatch"
    /\ Head(in_flight_network_sends).msg.local_tail < local_tail
    /\ staging_local_tail = local_tail
    /\ worker = "running"

\* C39: when the log store fails a seal (it refuses enqueue_seal, or the
\* seal token resolves Err) the seal stays in progress: from then on the
\* loglet state is never sealed, sealing_in_progress stays true, no waiter
\* answers and no Sealed response is sent, and every Store dequeued is
\* turned away as Sealing, whatever its flags.
C39_FailedSealStaysInProgress ==
        /\ SealDequeued /\ ~was.sealed /\ log_store_disabled => SealFailed
        /\ was.in_flight_seal # Some("err") /\ in_flight_seal = Some("err")
           => SealFailed
        /\ SealHadFailed
           => /\ SealFailed
              /\ ~was.sealed /\ ~sealed
              /\ ~SealAnswered
              /\ waiting_for_seal # was.waiting_for_seal
                     => SealDequeued \/ worker = "stopped"
              /\ last_response # was.last_response
                     => last_response.kind # "Sealed"
              /\ (StoreRejected \/ StoreEnqueued \/ StorePanicked)
                     => /\ StoreRejected
                        /\ rejected_store.msg.status = "Sealing"

\* The seal token resolved Err: the Seal waits unanswered, and a Store that
\* carries IgnoreSeal was answered Sealing.
C39_Witness ==
    /\ in_flight_seal = Some("err")
    /\ sealing_in_progress
    /\ ~sealed
    /\ waiting_for_seal # << >>
    /\ last_response.kind = "Stored"
    /\ last_response.status = "Sealing"
    /\ worker = "running"

\* C40, as stated: whenever the worker runs with no store in flight,
\* staging_local_tail is the local tail.
C40_AsStated ==
    (worker = "running" /\ in_flight_stores = << >>)
    => staging_local_tail = local_tail

\* Every store has completed with status Ok and the log store works; the
\* last one was a store of the sequencer below the local tail, and
\* staging_local_tail is its end.
C40_Witness ==
    /\ worker = "running"
    /\ in_flight_stores = << >>
    /\ ~log_store_disabled
    /\ sequencer # None
    /\ staging_local_tail < local_tail
    /\ last_response = Stored(local_tail, "Ok")

====
